---- MODULE Spec2Model ----
(***************************************************************************)
(* Album identity matching and collection/listening analysis of the        *)
(* which-vinyl MCP server: utils/album-matcher (normalisation, similarity, *)
(* matching), the get_vinyl_recommendations tool and the                   *)
(* get_collection_analysis tool.                                           *)
(*                                                                         *)
(* Strings are sequences of one-character strings.  JavaScript numbers are *)
(* IEEE-754 binary64 values; the ones the code computes are non-negative   *)
(* and finite, and are modelled exactly: a Number is [m, e] with value     *)
(* m * 2^e, where m is 0 or a 53-bit natural number kept as a little-endian*)
(* sequence of 14-bit limbs (TLC integers are 32 bits wide), and every     *)
(* arithmetic operation rounds to nearest, ties to even.                   *)
(***************************************************************************)
EXTENDS Integers, Sequences, FiniteSets, TLC

----------------------------------------------------------------------------
(* Natural numbers of arbitrary size: little-endian limbs, no high zero limb *)

LimbBits == 14

Limb == 2 ^ LimbBits

RECURSIVE BigNorm(_)
BigNorm(x) ==
  IF x = <<>> THEN <<>>
  ELSE IF x[Len(x)] = 0 THEN BigNorm(SubSeq(x, 1, Len(x) - 1))
  ELSE x

RECURSIVE BigFromNat(_)
BigFromNat(n) ==
  IF n = 0 THEN <<>> ELSE <<n % Limb>> \o BigFromNat(n \div Limb)

RECURSIVE BigToNat(_)
BigToNat(x) ==
  IF x = <<>> THEN 0 ELSE Head(x) + Limb * BigToNat(Tail(x))

RECURSIVE BigAddC(_, _, _)
BigAddC(x, y, c) ==
  IF x = <<>> /\ y = <<>> THEN (IF c = 0 THEN <<>> ELSE <<c>>)
  ELSE LET a == IF x = <<>> THEN 0 ELSE Head(x)
           b == IF y = <<>> THEN 0 ELSE Head(y)
           s == a + b + c
       IN  <<s % Limb>> \o BigAddC(IF x = <<>> THEN <<>> ELSE Tail(x),
                                   IF y = <<>> THEN <<>> ELSE Tail(y),
                                   s \div Limb)

BigAdd(x, y) == BigAddC(x, y, 0)

\* x - y - c for x >= y + c
RECURSIVE BigSubC(_, _, _)
BigSubC(x, y, c) ==
  IF x = <<>> THEN <<>>
  ELSE LET b == IF y = <<>> THEN 0 ELSE Head(y)
           d == Head(x) - b - c
       IN  <<IF d < 0 THEN d + Limb ELSE d>>
             \o BigSubC(Tail(x), IF y = <<>> THEN <<>> ELSE Tail(y),
                        IF d < 0 THEN 1 ELSE 0)

BigSub(x, y) == BigNorm(BigSubC(x, y, 0))

\* x * k + c for 0 <= k <= Limb
RECURSIVE BigMulSmallC(_, _, _)
BigMulSmallC(x, k, c) ==
  IF x = <<>> THEN (IF c = 0 THEN <<>> ELSE <<c>>)
  ELSE LET p == Head(x) * k + c
       IN  <<p % Limb>> \o BigMulSmallC(Tail(x), k, p \div Limb)

BigMulSmall(x, k) == BigNorm(BigMulSmallC(x, k, 0))

RECURSIVE BigMul(_, _)
BigMul(x, y) ==
  IF x = <<>> \/ y = <<>> THEN <<>>
  ELSE LET rest == BigMul(x, Tail(y))
       IN  BigAdd(BigMulSmall(x, Head(y)),
                  IF rest = <<>> THEN <<>> ELSE <<0>> \o rest)

\* quotient and remainder of x by k, 0 < k <= Limb
RECURSIVE BigDivModSmall(_, _)
BigDivModSmall(x, k) ==
  IF x = <<>> THEN [q |-> <<>>, r |-> 0]
  ELSE LET hi  == BigDivModSmall(Tail(x), k)
           cur == hi.r * Limb + Head(x)
       IN  [q |-> BigNorm(<<cur \div k>> \o hi.q), r |-> cur % k]

\* -1, 0, 1 as x <, =, > y
RECURSIVE BigCmp(_, _)
BigCmp(x, y) ==
  IF Len(x) # Len(y) THEN (IF Len(x) < Len(y) THEN -1 ELSE 1)
  ELSE IF x = <<>> THEN 0
  ELSE LET n == Len(x)
       IN  IF x[n] # y[n] THEN (IF x[n] < y[n] THEN -1 ELSE 1)
           ELSE BigCmp(SubSeq(x, 1, n - 1), SubSeq(y, 1, n - 1))

RECURSIVE NatBitLen(_)
NatBitLen(n) == IF n = 0 THEN 0 ELSE 1 + NatBitLen(n \div 2)

BigBitLen(x) ==
  IF x = <<>> THEN 0 ELSE LimbBits * (Len(x) - 1) + NatBitLen(x[Len(x)])

Zeros(n) == [i \in 1..n |-> 0]

BigShl(x, s) ==
  IF x = <<>> THEN <<>>
  ELSE Zeros(s \div LimbBits) \o BigMulSmall(x, 2 ^ (s % LimbBits))

BigShr(x, s) ==
  LET k == s \div LimbBits
  IN  IF k >= Len(x) THEN <<>>
      ELSE BigDivModSmall(SubSeq(x, k + 1, Len(x)), 2 ^ (s % LimbBits)).q

BigIsOdd(x) == x # <<>> /\ Head(x) % 2 = 1

----------------------------------------------------------------------------
(* IEEE-754 binary64 arithmetic on non-negative finite values               *)

MantissaBits == 53

NumZero == [m |-> <<>>, e |-> 0]

\* the binary64 nearest to n * 2^e (+ a non-zero tail below it when sticky),
\* ties to even
RoundToNumber(n, e, sticky) ==
  LET len == BigBitLen(n)
  IN  IF len = 0 THEN NumZero
      ELSE IF len <= MantissaBits
      THEN [m |-> BigShl(n, MantissaBits - len), e |-> e - (MantissaBits - len)]
      ELSE LET s    == len - MantissaBits
               q    == BigShr(n, s)
               r    == BigSub(n, BigShl(q, s))
               half == BigShl(<<1>>, s - 1)
               c    == BigCmp(r, half)
               up   == c > 0 \/ (c = 0 /\ (sticky \/ BigIsOdd(q)))
               q1   == IF up THEN BigAdd(q, <<1>>) ELSE q
           IN  IF BigBitLen(q1) > MantissaBits
               THEN [m |-> BigShr(q1, 1), e |-> e + s + 1]
               ELSE [m |-> q1, e |-> e + s]

NumFromNat(n) == RoundToNumber(BigFromNat(n), 0, FALSE)

\* p / q for natural numbers p and 0 < q <= Limb
NumDivNat(p, q) ==
  LET d == BigDivModSmall(BigShl(BigFromNat(p), 5 * LimbBits), q)
  IN  RoundToNumber(d.q, 0 - 5 * LimbBits, d.r # 0)

NumMul(x, y) ==
  IF x.m = <<>> \/ y.m = <<>> THEN NumZero
  ELSE RoundToNumber(BigMul(x.m, y.m), x.e + y.e, FALSE)

NumMin(a, b) == IF a < b THEN a ELSE b

NumAdd(x, y) ==
  IF x.m = <<>> THEN y
  ELSE IF y.m = <<>> THEN x
  ELSE LET e == NumMin(x.e, y.e)
       IN  RoundToNumber(BigAdd(BigShl(x.m, x.e - e), BigShl(y.m, y.e - e)),
                         e, FALSE)

\* -1, 0, 1 as x <, =, > y
NumCmp(x, y) ==
  IF x.m = <<>> \/ y.m = <<>>
  THEN (IF x.m = y.m THEN 0 ELSE IF x.m = <<>> THEN -1 ELSE 1)
  ELSE LET e == NumMin(x.e, y.e)
       IN  BigCmp(BigShl(x.m, x.e - e), BigShl(y.m, y.e - e))

\* x - y for x >= y
NumSub(x, y) ==
  IF y.m = <<>> THEN x
  ELSE LET e == NumMin(x.e, y.e)
       IN  RoundToNumber(BigSub(BigShl(x.m, x.e - e), BigShl(y.m, y.e - e)),
                         e, FALSE)

NumGt(x, y) == NumCmp(x, y) > 0

NumGeq(x, y) == NumCmp(x, y) >= 0

\* Math.round: the nearest integer, ties towards +Infinity
MathRound(x) ==
  IF x.m = <<>> THEN 0
  ELSE IF x.e >= 0 THEN BigToNat(BigShl(x.m, x.e))
  ELSE LET s    == 0 - x.e
           q    == BigShr(x.m, s)
           r    == BigSub(x.m, BigShl(q, s))
           half == BigShl(<<1>>, s - 1)
       IN  BigToNat(q) + (IF BigCmp(r, half) >= 0 THEN 1 ELSE 0)

----------------------------------------------------------------------------
(* Strings: sequences of one-character strings                              *)

UpperCase ==
  <<"A","B","C","D","E","F","G","H","I","J","K","L","M",
    "N","O","P","Q","R","S","T","U","V","W","X","Y","Z">>

LowerCase ==
  <<"a","b","c","d","e","f","g","h","i","j","k","l","m",
    "n","o","p","q","r","s","t","u","v","w","x","y","z">>

Digits == {"0","1","2","3","4","5","6","7","8","9"}

Range(s) == {s[i] : i \in DOMAIN s}

\* the regular-expression class \w
IsWordChar(c) == c \in Range(UpperCase) \cup Range(LowerCase) \cup Digits \cup {"_"}

\* the regular-expression class \s
IsSpaceChar(c) == c \in {" ", "\t"}

LowerChar(c) ==
  IF c \in Range(UpperCase)
  THEN LowerCase[CHOOSE i \in DOMAIN UpperCase : UpperCase[i] = c]
  ELSE c

\* String.prototype.toLowerCase
toLowerCase(s) == [i \in DOMAIN s |-> LowerChar(s[i])]

Drop(s, n) == SubSeq(s, n + 1, Len(s))

Take(s, n) == SubSeq(s, 1, n)

StartsWith(s, p) == Len(s) >= Len(p) /\ Take(s, Len(p)) = p

\* length of the longest prefix of s made of \s characters
RECURSIVE LeadingSpaces(_)
LeadingSpaces(s) ==
  IF s # <<>> /\ IsSpaceChar(Head(s)) THEN 1 + LeadingSpaces(Tail(s)) ELSE 0

\* length of the longest suffix of s made of \s characters
RECURSIVE TrailingSpaces(_)
TrailingSpaces(s) ==
  IF s # <<>> /\ IsSpaceChar(s[Len(s)])
  THEN 1 + TrailingSpaces(Take(s, Len(s) - 1)) ELSE 0

DropLeadingSpaces(s) == Drop(s, LeadingSpaces(s))

DropTrailingSpaces(s) == Take(s, Len(s) - TrailingSpaces(s))

\* String.prototype.trim
Trim(s) == DropTrailingSpaces(DropLeadingSpaces(s))

\* .replace(/^the\s+/i, "")
RemoveLeadingThe(s) ==
  IF Len(s) >= 4 /\ toLowerCase(Take(s, 3)) = <<"t","h","e">> /\ IsSpaceChar(s[4])
  THEN DropLeadingSpaces(Drop(s, 3))
  ELSE s

\* .replace(/[^\w\s]/g, "")
RemoveSpecialChars(s) == SelectSeq(s, LAMBDA c : IsWordChar(c) \/ IsSpaceChar(c))

\* .replace(/\s+/g, " ")
RECURSIVE CollapseWhitespace(_)
CollapseWhitespace(s) ==
  IF s = <<>> THEN <<>>
  ELSE IF IsSpaceChar(Head(s))
  THEN <<" ">> \o CollapseWhitespace(DropLeadingSpaces(s))
  ELSE <<Head(s)>> \o CollapseWhitespace(Tail(s))

\* index of the first c in s at an index > from, 0 if none
RECURSIVE IndexAfter(_, _, _)
IndexAfter(s, c, from) ==
  IF from >= Len(s) THEN 0
  ELSE IF s[from + 1] = c THEN from + 1
  ELSE IndexAfter(s, c, from + 1)

\* .replace(/\s*\(.*?\)\s*/g, "") with open = "(" and close = ")", and
\* .replace(/\s*\[.*?\]\s*/g, "") with open = "[" and close = "]":
\* the leftmost match starts at the whitespace before the first open that has
\* a close after it, runs lazily to the first such close and on through the
\* whitespace after it; the search resumes after the match.
RECURSIVE RemoveEnclosed(_, _, _)
RemoveEnclosed(s, open, close) ==
  LET o == IndexAfter(s, open, 0)
      c == IF o = 0 THEN 0 ELSE IndexAfter(s, close, o)
  IN  IF c = 0 THEN s
      ELSE DropTrailingSpaces(Take(s, o - 1))
             \o RemoveEnclosed(DropLeadingSpaces(Drop(s, c)), open, close)

EditionWords ==
  { <<"d","e","l","u","x","e">>,
    <<"r","e","m","a","s","t","e","r">>,
    <<"r","e","m","a","s","t","e","r","e","d">>,
    <<"e","x","p","a","n","d","e","d">>,
    <<"a","n","n","i","v","e","r","s","a","r","y">>,
    <<"e","d","i","t","i","o","n">>,
    <<"s","p","e","c","i","a","l">>,
    <<"b","o","n","u","s">>,
    <<"m","o","n","o">>,
    <<"s","t","e","r","e","o">> }

\* (deluxe|remaster|...|stereo).*$ with the i flag, matched at the start of s
StartsWithEditionWord(s) ==
  \E w \in EditionWords : StartsWith(toLowerCase(s), w)

\* \d{4} matched at the start of s
StartsWithYear(s) == Len(s) >= 4 /\ \A i \in 1..4 : s[i] \in Digits

\* what follows the hyphen of an edition clause: \s*\d{4}\s*(words).*$ with a
\* year, \s*(words).*$ without
EditionTail(s, withYear) ==
  LET t == DropLeadingSpaces(s)
  IN  IF withYear
      THEN StartsWithYear(t) /\ StartsWithEditionWord(DropLeadingSpaces(Drop(t, 4)))
      ELSE StartsWithEditionWord(t)

\* index of the first hyphen at an index > from that starts an edition
\* clause, 0 if none
RECURSIVE EditionHyphen(_, _, _)
EditionHyphen(s, withYear, from) ==
  LET h == IndexAfter(s, "-", from)
  IN  IF h = 0 THEN 0
      ELSE IF EditionTail(Drop(s, h), withYear) THEN h
      ELSE EditionHyphen(s, withYear, h)

\* .replace(/\s*-\s*\d{4}\s*(deluxe|...|stereo).*$/i, "") with withYear, and
\* .replace(/\s*-\s*(deluxe|...|stereo).*$/i, "") without: the first match
\* only, from the whitespace before the hyphen to the end of the string
RemoveEditionClause(s, withYear) ==
  LET h == EditionHyphen(s, withYear, 0)
  IN  IF h = 0 THEN s ELSE DropTrailingSpaces(Take(s, h - 1))

normalizeArtist(name) ==
  Trim(CollapseWhitespace(RemoveSpecialChars(RemoveLeadingThe(toLowerCase(name)))))

\* normalizeAlbum with trim() called before the special characters are removed
normalizeAlbumTrimFirst(title) ==
  CollapseWhitespace(RemoveSpecialChars(Trim(
    RemoveEditionClause(
      RemoveEditionClause(
        RemoveEnclosed(RemoveEnclosed(toLowerCase(title), "(", ")"), "[", "]"),
        TRUE),
      FALSE))))

normalizeAlbum(title) ==
  Trim(CollapseWhitespace(RemoveSpecialChars(
    RemoveEditionClause(
      RemoveEditionClause(
        RemoveEnclosed(RemoveEnclosed(toLowerCase(title), "(", ")"), "[", "]"),
        TRUE),
      FALSE))))

----------------------------------------------------------------------------
(* utils/album-matcher: similarity and matching                              *)

Null == [null |-> TRUE]

Min3(a, b, c) == IF a <= b /\ a <= c THEN a ELSE IF b <= c THEN b ELSE c

\* cells j..a.length of row i of the matrix: prev is row i-1, ch is
\* b.charAt(i-1) and left is matrix[i][j-1]
\* LevCells without the deletion term, matrix[i - 1][j] + 1
RECURSIVE LevCellsNoDeletion(_, _, _, _, _)
LevCellsNoDeletion(prev, ch, a, j, left) ==
  IF j > Len(a) THEN <<>>
  ELSE LET cell == IF ch = a[j] THEN prev[j]
                   ELSE NumMin(prev[j], left) + 1
       IN  <<cell>> \o LevCellsNoDeletion(prev, ch, a, j + 1, cell)

\* LevCells with a substitution counted as two edits
RECURSIVE LevCellsSubstitutionTwo(_, _, _, _, _)
LevCellsSubstitutionTwo(prev, ch, a, j, left) ==
  IF j > Len(a) THEN <<>>
  ELSE LET cell == IF ch = a[j] THEN prev[j]
                   ELSE Min3(prev[j] + 1, left, prev[j + 1]) + 1
       IN  <<cell>> \o LevCellsSubstitutionTwo(prev, ch, a, j + 1, cell)

RECURSIVE LevCells(_, _, _, _, _)
LevCells(prev, ch, a, j, left) ==
  IF j > Len(a) THEN <<>>
  ELSE LET cell == IF ch = a[j] THEN prev[j]
                   ELSE Min3(prev[j], left, prev[j + 1]) + 1
       IN  <<cell>> \o LevCells(prev, ch, a, j + 1, cell)

\* rows i..b.length of the matrix, the last one returned
RECURSIVE LevRows(_, _, _, _)
LevRows(prev, a, b, i) ==
  IF i > Len(b) THEN prev
  ELSE LevRows(<<i>> \o LevCells(prev, b[i], a, 1, i), a, b, i + 1)

levenshteinDistance(a, b) ==
  LevRows([j \in 1..(Len(a) + 1) |-> j - 1], a, b, 1)[Len(a) + 1]

NumMax(a, b) == IF a > b THEN a ELSE b

\* stringSimilarity without its first line, if (a === b) return 1
stringSimilarityNoShortcut(a, b) ==
  IF Len(a) = 0 \/ Len(b) = 0 THEN NumZero
  ELSE NumSub(NumFromNat(1),
              NumDivNat(levenshteinDistance(a, b), NumMax(Len(a), Len(b))))

\* stringSimilarity with its first two lines in the other order
stringSimilarityEmptyFirst(a, b) ==
  IF Len(a) = 0 \/ Len(b) = 0 THEN NumZero
  ELSE IF a = b THEN NumFromNat(1)
  ELSE NumSub(NumFromNat(1),
              NumDivNat(levenshteinDistance(a, b), NumMax(Len(a), Len(b))))

stringSimilarity(a, b) ==
  IF a = b THEN NumFromNat(1)
  ELSE IF Len(a) = 0 \/ Len(b) = 0 THEN NumZero
  ELSE NumSub(NumFromNat(1),
              NumDivNat(levenshteinDistance(a, b), NumMax(Len(a), Len(b))))

\* the literals 1, 0.4, 0.6, 0.95, 0.75 and 0.9
NumOne == NumFromNat(1)

ArtistWeight == NumDivNat(4, 10)

AlbumWeight == NumDivNat(6, 10)

ExactThreshold == NumDivNat(95, 100)

FuzzyThreshold == NumDivNat(75, 100)

ArtistThreshold == NumDivNat(9, 10)

\* artistScore * 0.4 + albumScore * 0.6
WeightedScore(artistScore, albumScore) ==
  NumAdd(NumMul(artistScore, ArtistWeight), NumMul(albumScore, AlbumWeight))

calculateMatchScore(spotifyArtist, spotifyAlbum, discogsArtist, discogsAlbum) ==
  WeightedScore(
    stringSimilarity(normalizeArtist(spotifyArtist), normalizeArtist(discogsArtist)),
    stringSimilarity(normalizeAlbum(spotifyAlbum), normalizeAlbum(discogsAlbum)))

\* determineMatchType with the artist rule tested before the fuzzy one
determineMatchTypeArtistFirst(score, artistScore) ==
  IF NumGeq(score, ExactThreshold) THEN "exact"
  ELSE IF NumGeq(artistScore, ArtistThreshold) THEN "artist_only"
  ELSE IF NumGeq(score, FuzzyThreshold) THEN "fuzzy"
  ELSE "no_match"

\* determineMatchType without the artist rule
determineMatchTypeNoArtistRule(score, artistScore) ==
  IF NumGeq(score, ExactThreshold) THEN "exact"
  ELSE IF NumGeq(score, FuzzyThreshold) THEN "fuzzy"
  ELSE "no_match"

determineMatchType(score, artistScore) ==
  IF NumGeq(score, ExactThreshold) THEN "exact"
  ELSE IF NumGeq(score, FuzzyThreshold) THEN "fuzzy"
  ELSE IF NumGeq(artistScore, ArtistThreshold) THEN "artist_only"
  ELSE "no_match"

\* bestMatch, bestScore and bestArtistScore before the loop
InitialBest ==
  [bestMatch |-> Null, bestScore |-> NumZero, bestArtistScore |-> NumZero]

\* MatchLoop with score >= bestScore for score > bestScore
RECURSIVE MatchLoopGeq(_, _, _, _)
MatchLoopGeq(best, releases, normalizedSpotifyArtist, normalizedSpotifyAlbum) ==
  IF releases = <<>> THEN best
  ELSE LET release     == Head(releases)
           artistScore == stringSimilarity(normalizedSpotifyArtist,
                                           normalizeArtist(release.artist))
           albumScore  == stringSimilarity(normalizedSpotifyAlbum,
                                           normalizeAlbum(release.album))
           score       == WeightedScore(artistScore, albumScore)
       IN  IF NumGeq(score, best.bestScore)
           THEN MatchLoopGeq([bestMatch |-> release, bestScore |-> score,
                        bestArtistScore |-> artistScore],
                       Tail(releases), normalizedSpotifyArtist,
                       normalizedSpotifyAlbum)
           ELSE MatchLoopGeq(best, Tail(releases), normalizedSpotifyArtist,
                       normalizedSpotifyAlbum)

\* the loop over the collection, from the state best on
RECURSIVE MatchLoop(_, _, _, _)
MatchLoop(best, releases, normalizedSpotifyArtist, normalizedSpotifyAlbum) ==
  IF releases = <<>> THEN best
  ELSE LET release     == Head(releases)
           artistScore == stringSimilarity(normalizedSpotifyArtist,
                                           normalizeArtist(release.artist))
           albumScore  == stringSimilarity(normalizedSpotifyAlbum,
                                           normalizeAlbum(release.album))
           score       == WeightedScore(artistScore, albumScore)
       IN  IF NumGt(score, best.bestScore)
           THEN MatchLoop([bestMatch |-> release, bestScore |-> score,
                        bestArtistScore |-> artistScore],
                       Tail(releases), normalizedSpotifyArtist,
                       normalizedSpotifyAlbum)
           ELSE MatchLoop(best, Tail(releases), normalizedSpotifyArtist,
                       normalizedSpotifyAlbum)

\* MatchResultOf without the branch that returns null for no_match
MatchResultOfKeepBest(album, best) ==
  [spotifyAlbum |-> album, discogsRelease |-> best.bestMatch,
   matchScore |-> best.bestScore,
   matchType |-> determineMatchType(best.bestScore, best.bestArtistScore)]

\* the returned MatchResult, from the loop's outcome
MatchResultOf(album, best) ==
  LET matchType == determineMatchType(best.bestScore, best.bestArtistScore)
  IN  IF matchType = "no_match"
      THEN [spotifyAlbum |-> album, discogsRelease |-> Null,
            matchScore |-> best.bestScore, matchType |-> "no_match"]
      ELSE [spotifyAlbum |-> album, discogsRelease |-> best.bestMatch,
            matchScore |-> best.bestScore, matchType |-> matchType]

matchAlbumToCollection(album, releases) ==
  MatchResultOf(album,
    MatchLoop(InitialBest, releases,
              normalizeArtist(album.artist), normalizeAlbum(album.name)))

matchAlbumsToCollection(albums, releases) ==
  [i \in DOMAIN albums |-> matchAlbumToCollection(albums[i], releases)]

\* AlbumKey without the normalisation: `${artist}|${album}`
AlbumKeyRaw(artist, album) == artist \o <<"|">> \o album

\* `${normalizeArtist(artist)}|${normalizeAlbum(album)}`
AlbumKey(artist, album) ==
  normalizeArtist(artist) \o <<"|">> \o normalizeAlbum(album)

\* the loop of extractUniqueAlbums, from its i-th track on
RECURSIVE ExtractLoop(_, _, _, _)
ExtractLoop(tracks, i, seen, albums) ==
  IF i > Len(tracks) THEN albums
  ELSE LET key == AlbumKey(tracks[i].artist, tracks[i].album)
       IN  IF key \notin seen
           THEN ExtractLoop(tracks, i + 1, seen \cup {key},
                  Append(albums, [name |-> tracks[i].album,
                                  artist |-> tracks[i].artist]))
           ELSE ExtractLoop(tracks, i + 1, seen, albums)

extractUniqueAlbums(tracks) == ExtractLoop(tracks, 1, {}, <<>>)

\* isOwned with artist_only counted as owned
isOwnedOrArtist(r) == r.matchType # "no_match"

isOwned(r) == r.matchType = "exact" \/ r.matchType = "fuzzy"

----------------------------------------------------------------------------
(* Artist names and album titles the inputs are drawn from                  *)

Name ==
  [ Radiohead |->
      <<"R","a","d","i","o","h","e","a","d">>,
    Radiohed |->
      <<"R","a","d","i","o","h","e","d">>,
    TheBeatles |->
      <<"T","h","e"," ","B","e","a","t","l","e","s">>,
    Beatles |->
      <<"B","e","a","t","l","e","s">>,
    Blur |->
      <<"B","l","u","r">>,
    Bush |->
      <<"B","u","s","h">>,
    Portishead |->
      <<"P","o","r","t","i","s","h","e","a","d">>,
    Portisheat |->
      <<"P","o","r","t","i","s","h","e","a","t">>,
    Bangs |->
      <<"!","!","!">>,
    Queries |->
      <<"?","?","?">>,
    OKComputer |->
      <<"O","K"," ","C","o","m","p","u","t","e","r">>,
    OKComputerRemastered |->
      <<"O","K"," ","C","o","m","p","u","t","e","r"," ","(","R","e","m","a","s","t","e","r","e","d"," ","2","0","0","9",")">>,
    KidA |->
      <<"K","i","d"," ","A">>,
    KidB |->
      <<"K","i","d"," ","B">>,
    Help |->
      <<"H","e","l","p">>,
    HelpBang |->
      <<"H","e","l","p","!">>,
    Up |->
      <<"U","p">>,
    Us |->
      <<"U","s">>,
    Low |->
      <<"L","o","w">>,
    Dummy |->
      <<"D","u","m","m","y">>,
    Third |->
      <<"T","h","i","r","d">>,
    Untitled |->
      <<"(","U","n","t","i","t","l","e","d",")">>,
    UntitledBracket |->
      <<"[","U","n","t","i","t","l","e","d","]">> ]

----------------------------------------------------------------------------
(* State: the upstream data the tools fetch, the tokens, the call made and   *)
(* its result                                                               *)

VARIABLES
  collection,    \* DiscogsClient.getCollection().collection
  topTracks,     \* SpotifyClient.getTopTracks(...)
  recentTracks,  \* SpotifyClient.getRecentlyPlayed(...)
  topArtists,    \* SpotifyClient.getTopArtists(...)
  savedAlbums,   \* SpotifyClient.getSavedAlbums(...)
  client,        \* the token fields of the SpotifyClient instance
  keychain,      \* the keychain: the Spotify tokens, or the consolidated entry
  args,          \* the arguments of the call
  locals,        \* local values of the handler when it returned
  result,        \* what the call returned
  op             \* the operation that returned it, "none" before the call

upstream == <<collection, topTracks, recentTracks, topArtists, savedAlbums,
              client, keychain>>

vars == <<collection, topTracks, recentTracks, topArtists, savedAlbums,
          client, keychain, args, locals, result, op>>

\* the sequences over S of length at most n
SeqsUpTo(S, n) == UNION {[1..k -> S] : k \in 0..n}

Release(id, artist, album) ==
  [releaseId |-> id, artist |-> artist, album |-> album]

SpotifyAlbum(artist, name) == [name |-> name, artist |-> artist]

----------------------------------------------------------------------------
(* Spec: matchAlbumToCollection on one album and a collection               *)

MaxReleases == 2

OwnedReleases ==
  { Release("1", Name.Radiohead, Name.OKComputer),
    Release("2", Name.Radiohead, Name.KidB),
    Release("3", Name.Radiohed, Name.KidA),
    Release("4", Name.Beatles, Name.Help),
    Release("5", Name.TheBeatles, Name.HelpBang),
    Release("6", Name.Bush, Name.Us),
    Release("7", Name.Blur, Name.Low),
    Release("8", Name.Queries, Name.UntitledBracket),
    Release("9", Name.Portisheat, Name.Third),
    Release("10", Name.Bush, Name.Up) }

ListenedAlbums ==
  { SpotifyAlbum(Name.Radiohead, Name.OKComputerRemastered),
    SpotifyAlbum(Name.Radiohead, Name.KidA),
    SpotifyAlbum(Name.TheBeatles, Name.HelpBang),
    SpotifyAlbum(Name.Blur, Name.Up),
    SpotifyAlbum(Name.Bangs, Name.Untitled),
    SpotifyAlbum(Name.Portishead, Name.Dummy) }

Init ==
  /\ collection \in SeqsUpTo(OwnedReleases, MaxReleases)
  /\ topTracks = <<>>
  /\ recentTracks = <<>>
  /\ topArtists = <<>>
  /\ savedAlbums = <<>>
  /\ args = Null
  /\ locals = Null
  /\ result = Null
  /\ client = Null
  /\ keychain = Null
  /\ op = "none"

MatchAlbumToCollection ==
  /\ op = "none"
  /\ \E album \in ListenedAlbums :
       /\ args' = [album |-> album]
       /\ result' = matchAlbumToCollection(album, collection)
  /\ op' = "matchAlbumToCollection"
  /\ UNCHANGED <<upstream, locals>>

Next == MatchAlbumToCollection

Spec == Init /\ [][Next]_vars

----------------------------------------------------------------------------
(* SpecExtract: extractUniqueAlbums on a list of tracks                     *)

MaxTracks == 3

Track(artist, album) == [artist |-> artist, album |-> album]

ListenedTracks ==
  { Track(Name.TheBeatles, Name.HelpBang),
    Track(Name.Beatles, Name.Help),
    Track(Name.Radiohead, Name.KidA),
    Track(Name.Radiohead, Name.KidB),
    Track(Name.Radiohead, Name.OKComputerRemastered),
    Track(Name.Radiohead, Name.OKComputer) }

\* no data upstream and no call made
InitIdle ==
  /\ collection = <<>>
  /\ topTracks = <<>>
  /\ recentTracks = <<>>
  /\ topArtists = <<>>
  /\ savedAlbums = <<>>
  /\ args = Null
  /\ locals = Null
  /\ result = Null
  /\ client = Null
  /\ keychain = Null
  /\ op = "none"

ExtractUniqueAlbums ==
  /\ op = "none"
  /\ \E tracks \in SeqsUpTo(ListenedTracks, MaxTracks) :
       /\ args' = [tracks |-> tracks]
       /\ result' = extractUniqueAlbums(tracks)
  /\ op' = "extractUniqueAlbums"
  /\ UNCHANGED <<upstream, locals>>

NextExtract == ExtractUniqueAlbums

SpecExtract == InitIdle /\ [][NextExtract]_vars

----------------------------------------------------------------------------
(* Claims about matchAlbumToCollection, checked under Spec                  *)

Matched == op = "matchAlbumToCollection"

\* artistScore, albumScore and score of every release against the album
RECURSIVE ScoresOf(_, _)
ScoresOf(album, releases) ==
  IF releases = <<>> THEN <<>>
  ELSE LET release == Head(releases)
       IN  << [artistScore |->
                 stringSimilarity(normalizeArtist(album.artist),
                                  normalizeArtist(release.artist)),
               albumScore |->
                 stringSimilarity(normalizeAlbum(album.name),
                                  normalizeAlbum(release.album)),
               score |->
                 calculateMatchScore(album.artist, album.name,
                                     release.artist, release.album)] >>
           \o ScoresOf(album, Tail(releases))

\* the releases with the highest score, when it is above 0
BestOf(sc) ==
  {i \in DOMAIN sc :
     /\ NumGt(sc[i].score, NumZero)
     /\ \A j \in DOMAIN sc : NumGeq(sc[i].score, sc[j].score)}

\* the first of them
WinnersOf(sc) == LET best == BestOf(sc) IN {i \in best : \A j \in best : i <= j}

\* the tier the thresholds give
TierOf(score, artistScore) ==
  CASE NumGeq(score, ExactThreshold) -> "exact"
    [] NumCmp(score, ExactThreshold) < 0 /\ NumGeq(score, FuzzyThreshold) -> "fuzzy"
    [] NumCmp(score, FuzzyThreshold) < 0 /\ NumGeq(artistScore, ArtistThreshold)
         -> "artist_only"
    [] OTHER -> "no_match"

\* C1: matchAlbumToCollection returns discogsRelease == null if and only if
\* matchType is no_match, for every album and every collection, the empty
\* one included.
C1_NullIffNoMatch ==
  Matched => (result.discogsRelease = Null <=> result.matchType = "no_match")

\* a no_match result although some release scored best: the release is dropped
C1_Witness ==
  /\ Matched
  /\ result.matchType = "no_match"
  /\ WinnersOf(ScoresOf(args.album, collection)) # {}

\* C2: the result's score is the winning release's
\* 0.4 * artistScore + 0.6 * albumScore and its tier comes from that score and
\* that release's artistScore: exact from 0.95, else fuzzy from 0.75, else
\* artist_only for an artistScore from 0.9, else no_match (score 0 and
\* no_match when no release scores above 0).
C2_TierByThresholds ==
  Matched =>
    LET sc == ScoresOf(args.album, collection)
        w  == WinnersOf(sc)
    IN  IF w = {}
        THEN result.matchScore = NumZero /\ result.matchType = "no_match"
        ELSE \A i \in w :
               LET score == NumAdd(NumMul(ArtistWeight, sc[i].artistScore),
                                   NumMul(AlbumWeight, sc[i].albumScore))
               IN  /\ result.matchScore = score
                   /\ result.matchType = TierOf(score, sc[i].artistScore)

\* a fuzzy result whose artistScore passes the artist threshold too: the
\* score rule comes first
C2_Witness ==
  /\ Matched
  /\ result.matchType = "fuzzy"
  /\ LET sc == ScoresOf(args.album, collection)
     IN  \E i \in WinnersOf(sc) : NumGeq(sc[i].artistScore, ArtistThreshold)

\* artistScore 1 and albumScore 0
SameArtistOtherAlbum(s) == s.artistScore = NumOne /\ s.albumScore = NumZero

\* C3 as stated: a best release with artistScore 1.0 and albumScore 0.0 gives
\* score 0.4 and tier no_match with a null release.
C3_AsStated ==
  Matched =>
    LET sc == ScoresOf(args.album, collection)
    IN  \A i \in WinnersOf(sc) :
          SameArtistOtherAlbum(sc[i]) =>
            /\ result.matchScore = ArtistWeight
            /\ result.matchType = "no_match"
            /\ result.discogsRelease = Null

\* C3 amended: a best release with artistScore 1.0 and albumScore 0.0 gives
\* score 0.4 and tier artist_only, and the result carries that release.
C3_ArtistOnlyAtScore04 ==
  Matched =>
    LET sc == ScoresOf(args.album, collection)
    IN  \A i \in WinnersOf(sc) :
          SameArtistOtherAlbum(sc[i]) =>
            /\ result.matchScore = ArtistWeight
            /\ result.matchType = "artist_only"
            /\ result.discogsRelease = collection[i]

C3_Witness ==
  /\ Matched
  /\ LET sc == ScoresOf(args.album, collection)
     IN  \E i \in WinnersOf(sc) : SameArtistOtherAlbum(sc[i])

\* release i normalises to the album's artist and title
SameNormalized(i) ==
  /\ normalizeArtist(collection[i].artist) = normalizeArtist(args.album.artist)
  /\ normalizeAlbum(collection[i].album) = normalizeAlbum(args.album.name)

\* C4: when some release of the collection normalises to the album's artist
\* and title, the result is exact with score 1.0, whatever the other releases
\* and their order.
C4_IdenticalIsExact ==
  (Matched /\ \E i \in DOMAIN collection : SameNormalized(i)) =>
    /\ result.matchType = "exact"
    /\ result.matchScore = NumOne

\* the identical release comes second, after a different one, and its title
\* differs from the album's before normalisation
C4_Witness ==
  /\ Matched
  /\ Len(collection) = 2
  /\ SameNormalized(2)
  /\ ~SameNormalized(1)
  /\ collection[2].album # args.album.name
  /\ result.matchType = "exact"

\* C8: the release returned is the first one with the highest score, and the
\* tier is decided with that release's artistScore.
C8_FirstBestWins ==
  Matched =>
    LET sc == ScoresOf(args.album, collection)
    IN  \A i \in WinnersOf(sc) :
          /\ result.matchScore = sc[i].score
          /\ result.discogsRelease \in {Null, collection[i]}
          /\ result.matchType # "no_match" => result.discogsRelease = collection[i]
          /\ result.matchType = "artist_only" =>
               NumGeq(sc[i].artistScore, ArtistThreshold)
          /\ result.matchType = "no_match" =>
               NumCmp(sc[i].artistScore, ArtistThreshold) < 0

\* two releases tie for the highest score with different artistScores
C8_Witness ==
  /\ Matched
  /\ LET sc == ScoresOf(args.album, collection)
     IN  \E i \in WinnersOf(sc) : \E j \in BestOf(sc) :
           i < j /\ sc[i].artistScore # sc[j].artistScore

----------------------------------------------------------------------------
(* Claims about extractUniqueAlbums, checked under SpecExtract              *)

Extracted == op = "extractUniqueAlbums"

\* the pair a track is identified by
NormalizedPair(t) == <<normalizeArtist(t.artist), normalizeAlbum(t.album)>>

\* the tracks whose pair no earlier track has
FirstOccurrences(tracks) ==
  {i \in DOMAIN tracks :
     \A j \in 1..(i - 1) : NormalizedPair(tracks[j]) # NormalizedPair(tracks[i])}

\* C7: extractUniqueAlbums returns one entry per distinct pair
\* (normalizeArtist(artist), normalizeAlbum(album)), with the strings of the
\* first track that has the pair, in order of first occurrence.
C7_FirstOccurrencesInOrder ==
  Extracted =>
    LET firsts == FirstOccurrences(args.tracks)
    IN  /\ Len(result) = Cardinality(firsts)
        /\ \A i \in firsts :
             result[Cardinality({j \in firsts : j <= i})]
               = [name |-> args.tracks[i].album, artist |-> args.tracks[i].artist]

\* the third track repeats the first one's pair under other strings
C7_Witness ==
  /\ Extracted
  /\ Len(args.tracks) = 3
  /\ NormalizedPair(args.tracks[3]) = NormalizedPair(args.tracks[1])
  /\ NormalizedPair(args.tracks[2]) # NormalizedPair(args.tracks[1])
  /\ args.tracks[3] # args.tracks[1]
  /\ Len(result) = 2
  /\ result[1].artist = args.tracks[1].artist

----------------------------------------------------------------------------
(* collectionAnalysisTool.handler: the summary and vennData of its response *)
(* (the insights and comparison sections are built from the same values and *)
(* are not part of the modelled result)                                     *)

\* the key of every track of a list, in order
TrackKeys(tracks) ==
  [i \in DOMAIN tracks |-> AlbumKey(tracks[i].artist, tracks[i].album)]

\* PercentOf with 100 for a total of 0
PercentOfVacuous(count, total) ==
  IF total > 0
  THEN MathRound(NumMul(NumDivNat(count, total), NumFromNat(100)))
  ELSE 100

\* total > 0 ? Math.round((count / total) * 100) : 0
PercentOf(count, total) ==
  IF total > 0
  THEN MathRound(NumMul(NumDivNat(count, total), NumFromNat(100)))
  ELSE 0

\* ListeningCounts with a release counted once for its recent plays and
\* once more for its top tracks
ListeningCountsTwice(releaseKeys, recentKeys, topTrackAlbums) ==
  LET played == {i \in DOMAIN releaseKeys :
                   \E j \in DOMAIN recentKeys : recentKeys[j] = releaseKeys[i]}
      inTop  == {i \in DOMAIN releaseKeys : releaseKeys[i] \in topTrackAlbums}
  IN  [ownedAndListened |-> Cardinality(played) + Cardinality(inTop),
       ownedNotListened |-> Cardinality(DOMAIN releaseKeys \ (played \cup inTop))]

\* the loop over the collection: ownedAndListened and ownedNotListened
ListeningCounts(releaseKeys, recentKeys, topTrackAlbums) ==
  LET playCount(i) ==
        Cardinality({j \in DOMAIN recentKeys : recentKeys[j] = releaseKeys[i]})
      isInTop(i) == releaseKeys[i] \in topTrackAlbums
      listened ==
        {i \in DOMAIN releaseKeys : playCount(i) > 0 \/ isInTop(i)}
  IN  [ownedAndListened |-> Cardinality(listened),
       ownedNotListened |-> Cardinality(DOMAIN releaseKeys \ listened)]

\* the loops over matchResults: listenedNotOwned and overlapAlbums.length
MatchCounts(matchResults) ==
  LET owned == {i \in DOMAIN matchResults : isOwned(matchResults[i])}
  IN  [overlapAlbums |-> Cardinality(owned),
       listenedNotOwned |-> Cardinality(DOMAIN matchResults \ owned)]

\* the counts of the handler's loops, timeRange left aside
AnalysisCounts(releases, top, recent, listenedAlbums) ==
  [collectionLength |-> Len(releases),
   listenedLength |-> Len(listenedAlbums),
   listening |-> ListeningCounts(TrackKeys(releases), TrackKeys(recent),
                                 Range(TrackKeys(top))),
   matched |-> MatchCounts(matchAlbumsToCollection(listenedAlbums, releases))]

\* the scores, the Venn data and the response built from the counts
AnalysisResponse(counts, time_range) ==
  LET timeRange == IF time_range = "" THEN "medium_term" ELSE time_range
      ownedAndListened == counts.listening.ownedAndListened
      ownedNotListened == counts.listening.ownedNotListened
      listenedNotOwned == counts.matched.listenedNotOwned
      totalAnalyzed == ownedAndListened + ownedNotListened + listenedNotOwned
      onlyOwned    == counts.collectionLength - counts.matched.overlapAlbums
      onlyListened == counts.listenedLength - counts.matched.overlapAlbums
      both         == counts.matched.overlapAlbums
      totalUnique  == onlyOwned + onlyListened + both
  IN  [summary |->
         [alignmentScore |-> PercentOf(ownedAndListened, totalAnalyzed),
          overlapPercentage |-> PercentOf(both, totalUnique),
          ownedAndListened |-> ownedAndListened,
          ownedNotListened |-> ownedNotListened,
          listenedNotOwned |-> listenedNotOwned,
          totalInCollection |-> counts.collectionLength,
          timeRange |-> timeRange],
       vennData |->
         [onlyOwned |-> onlyOwned, onlyListened |-> onlyListened,
          both |-> both]]

----------------------------------------------------------------------------
(* SpecAnalysis: the analysis of a shelf of records against a listening     *)
(* history that follows the shelf's order                                   *)

MaxArtists == 2
MaxTopTracks == 23

ArtistInitials == <<"A","B","C">>

AlbumNumbers ==
  <<"0","1","2","3","4","5","6","7","8","9",
    "a","b","c","d","e","f","g","h","i","j">>

\* the i-th record of the shelf: every artist has Len(AlbumNumbers) albums
ShelfRelease(i) ==
  Release(ToString(i),
          <<ArtistInitials[((i - 1) \div Len(AlbumNumbers)) + 1]>>,
          <<AlbumNumbers[((i - 1) % Len(AlbumNumbers)) + 1]>>)

\* the first n records of the shelf
Shelf(n) == [i \in 1..n |-> ShelfRelease(i)]

\* a track of each of the first n records of the shelf
ShelfTracks(n) ==
  [i \in 1..n |-> Track(ShelfRelease(i).artist, ShelfRelease(i).album)]

\* recently played: nothing, or tracks of one owned and one missing album
RecentlyPlayed ==
  { <<>>,
    <<Track(<<"A">>, <<"0">>), Track(<<"Z">>, <<"0">>),
      Track(<<"A">>, <<"0">>)>> }

TimeRanges == {"", "short_term"}

\* the collection holds the whole discographies of the first artists
InitAnalysis ==
  /\ \E m \in 0..MaxArtists : collection = Shelf(m * Len(AlbumNumbers))
  /\ \E k \in 0..MaxTopTracks : topTracks = ShelfTracks(k)
  /\ recentTracks \in RecentlyPlayed
  /\ topArtists = <<>>
  /\ savedAlbums = <<>>
  /\ args = Null
  /\ locals = Null
  /\ result = Null
  /\ client = Null
  /\ keychain = Null
  /\ op = "none"

\* the handler: the data is analysed once, whatever the time range asked
CollectionAnalysis ==
  /\ op = "none"
  /\ LET counts ==
           AnalysisCounts(collection, topTracks, recentTracks,
                          extractUniqueAlbums(topTracks \o recentTracks))
     IN  \E time_range \in TimeRanges :
           /\ args' = [time_range |-> time_range]
           /\ result' = AnalysisResponse(counts, time_range)
  /\ op' = "collectionAnalysis"
  /\ UNCHANGED <<upstream, locals>>

NextAnalysis == CollectionAnalysis

SpecAnalysis == InitAnalysis /\ [][NextAnalysis]_vars

----------------------------------------------------------------------------
(* vinylRecommendationsTool.handler                                         *)

\* args.source || "top_tracks"
SourceOf(source) == IF source = "" THEN "top_tracks" ELSE source

\* Math.min(args.limit || 20, 50)
LimitOf(limit) == NumMin(IF limit = 0 THEN 20 ELSE limit, 50)

\* the least element of a non-empty set of integers
Least(S) == CHOOSE x \in S : \A y \in S : x <= y

\* the albums the source gives, in the order it gives them
RecommendationAlbums(source, top, artists, saved, recent) ==
  CASE source = "top_tracks" -> extractUniqueAlbums(top)
    [] source = "top_artists" ->
         LET topArtistNames ==
               {toLowerCase(artists[i].name) : i \in DOMAIN artists}
             kept(a) == toLowerCase(a.artist) \in topArtistNames
             filtered == SelectSeq(saved, kept)
         IN  [i \in DOMAIN filtered |->
                [name |-> filtered[i].name, artist |-> filtered[i].artist]]
    [] source = "saved_albums" ->
         [i \in DOMAIN saved |->
            [name |-> saved[i].name, artist |-> saved[i].artist]]
    [] source = "recently_played" -> extractUniqueAlbums(recent)
    [] OTHER -> <<>>

\* `${track.artist}|${track.album}`, the key of trackPopularity
PopularityKey(artist, album) == artist \o <<"|">> \o album

\* trackPopularity.get(key): the popularity of the first track with the key
\* among the tracks the source read, Null (undefined) without one
TrackPopularity(source, top, recent, album) ==
  LET tracks == CASE source = "top_tracks" -> top
                  [] source = "recently_played" -> recent
                  [] OTHER -> <<>>
      hits == {i \in DOMAIN tracks :
                 PopularityKey(tracks[i].artist, tracks[i].album)
                   = PopularityKey(album.artist, album.name)}
  IN  IF hits = {} THEN Null ELSE tracks[Least(hits)].popularity

\* albums.findIndex(a => a.name === album.name && a.artist === album.artist)
FindIndex(albums, album) ==
  LET hits == {i \in DOMAIN albums : /\ albums[i].name = album.name
                                     /\ albums[i].artist = album.artist}
  IN  IF hits = {} THEN 0 - 1 ELSE Least(hits) - 1

\* the reason, a template string being the sequence of its parts
Reason(source, rank) ==
  CASE source = "top_tracks" ->
         IF rank >= 0
         THEN <<"Your #", ToString(rank + 1), " most played album">>
         ELSE <<"Frequently played">>
    [] source = "top_artists" -> <<"From one of your top artists">>
    [] source = "saved_albums" -> <<"Saved in your Spotify library">>
    [] source = "recently_played" ->
         IF rank >= 0
         THEN <<"Recently played (#", ToString(rank + 1), ")">>
         ELSE <<"Recently played">>
    [] OTHER -> <<"Based on your listening">>

\* the recommendation the loop pushes for a result
Recommendation(r, source, albums, top, recent) ==
  [album |-> r.spotifyAlbum.name,
   artist |-> r.spotifyAlbum.artist,
   reason |-> Reason(source, FindIndex(albums, r.spotifyAlbum)),
   spotifyPopularity |-> TrackPopularity(source, top, recent, r.spotifyAlbum)]

\* matchResults.filter((r) => !isOwned(r))
NotOwned(matchResults) == SelectSeq(matchResults, LAMBDA r : ~isOwned(r))

\* RecommendLoop with recommendations.length <= limit
RECURSIVE RecommendLoopLeq(_, _, _, _)
RecommendLoopLeq(entries, i, recommendations, limit) ==
  IF i <= Len(entries) /\ Len(recommendations) <= limit
  THEN RecommendLoopLeq(entries, i + 1, Append(recommendations, entries[i]),
                        limit)
  ELSE recommendations

\* for (i = 0; i < notOwned.length && recommendations.length < limit; i++),
\* entries[i] being what the body pushes for notOwned[i]; i counts from 1
RECURSIVE RecommendLoop(_, _, _, _)
RecommendLoop(entries, i, recommendations, limit) ==
  IF i <= Len(entries) /\ Len(recommendations) < limit
  THEN RecommendLoop(entries, i + 1, Append(recommendations, entries[i]),
                     limit)
  ELSE recommendations

\* byArtist: the number of recommendations of every recommended artist
ByArtist(recommendations) ==
  [a \in {recommendations[j].artist : j \in DOMAIN recommendations} |->
     Cardinality({j \in DOMAIN recommendations :
                    recommendations[j].artist = a})]

\* the response, from the recommendations on
RecommendationsResponse(recommendations, source, timeRange, albums,
                        matchResults) ==
  [recommendations |-> recommendations,
   summary |->
     [analyzed |-> Len(albums),
      alreadyOwned |-> Len(SelectSeq(matchResults, isOwned)),
      recommended |-> Len(recommendations),
      source |-> source,
      timeRange |-> IF source = "top_tracks" \/ source = "top_artists"
                    THEN timeRange ELSE Null],
   byArtist |-> ByArtist(recommendations),
   byDecade |-> <<>>]

\* the handler from matchResults on
vinylRecommendations(source, timeRange, limit, albums, matchResults,
                     top, recent) ==
  LET notOwned == NotOwned(matchResults)
      entries  == [i \in DOMAIN notOwned |->
                     Recommendation(notOwned[i], source, albums, top, recent)]
  IN  RecommendationsResponse(RecommendLoop(entries, 1, <<>>, limit),
                              source, timeRange, albums, matchResults)

----------------------------------------------------------------------------
(* SpecRecommend: recommendations for a listener whose feeds carry the same *)
(* plays                                                                    *)

MaxPlayed == 3
MaxLimit == 2

PlayedTrack(artist, album, popularity) ==
  [artist |-> artist, album |-> album, popularity |-> popularity]

PlayedTracks ==
  { PlayedTrack(Name.Blur, Name.Low, 50),
    PlayedTrack(Name.Blur, Name.Up, 40),
    PlayedTrack(Name.Radiohead, Name.KidA, 70) }

Shelves ==
  { <<>>,
    <<Release("7", Name.Blur, Name.Low)>>,
    <<Release("7", Name.Blur, Name.Low),
      Release("2", Name.Radiohead, Name.KidB)>> }

TopArtist(name) == [name |-> name]

TopArtistLists == { <<>>, <<TopArtist(toLowerCase(Name.Blur))>> }

Sources ==
  {"", "top_tracks", "top_artists", "saved_albums", "recently_played"}

InitRecommend ==
  /\ collection \in Shelves
  /\ topTracks \in SeqsUpTo(PlayedTracks, MaxPlayed)
  /\ recentTracks = topTracks
  /\ savedAlbums = [i \in DOMAIN topTracks |->
                      SpotifyAlbum(topTracks[i].artist, topTracks[i].album)]
  /\ topArtists \in TopArtistLists
  /\ args = Null
  /\ locals = Null
  /\ result = Null
  /\ client = Null
  /\ keychain = Null
  /\ op = "none"

VinylRecommendations ==
  /\ op = "none"
  /\ \E source \in Sources :
     \E albums \in {RecommendationAlbums(SourceOf(source), topTracks,
                                         topArtists, savedAlbums,
                                         recentTracks)} :
     \E matchResults \in {matchAlbumsToCollection(albums, collection)} :
     \E limit \in 0..MaxLimit, time_range \in TimeRanges :
       /\ args' = [source |-> source, time_range |-> time_range,
                   limit |-> limit]
       /\ locals' = [albums |-> albums, matchResults |-> matchResults]
       /\ result' = vinylRecommendations(
                      SourceOf(source),
                      IF time_range = "" THEN "medium_term" ELSE time_range,
                      LimitOf(limit), albums, matchResults, topTracks,
                      recentTracks)
  /\ op' = "vinylRecommendations"
  /\ UNCHANGED upstream

NextRecommend == VinylRecommendations

SpecRecommend == InitRecommend /\ [][NextRecommend]_vars

----------------------------------------------------------------------------
(* Claims about the analysis, checked under SpecAnalysis                    *)

Analyzed == op = "collectionAnalysis"

\* round(100 * count / total) over the rationals, halves rounded up
ExactPercent(count, total) == (200 * count + total) \div (2 * total)

\* C9: the alignment score is round(100 * ownedAndListened / (ownedAndListened
\* + ownedNotListened + listenedNotOwned)), or 0 when that sum is 0, and is
\* an integer from 0 to 100.
C9_AsStated ==
  Analyzed =>
    LET s == result.summary
        total == s.ownedAndListened + s.ownedNotListened + s.listenedNotOwned
    IN  /\ s.alignmentScore \in 0..100
        /\ s.alignmentScore =
             IF total > 0 THEN ExactPercent(s.ownedAndListened, total) ELSE 0

\* C10: both is the number of owned results among the unique listened
\* albums, onlyOwned the collection's size less both, onlyListened the
\* number of unique listened albums less both, and overlapPercentage is
\* round(100 * both / (onlyOwned + onlyListened + both)), or 0 when that sum
\* is 0.
C10_AsStated ==
  Analyzed =>
    LET v == result.vennData
        listened == extractUniqueAlbums(topTracks \o recentTracks)
        owned == {i \in DOMAIN listened :
                    isOwned(matchAlbumToCollection(listened[i], collection))}
        total == v.onlyOwned + v.onlyListened + v.both
    IN  /\ v.both = Cardinality(owned)
        /\ v.onlyOwned = Len(collection) - v.both
        /\ v.onlyListened = Len(listened) - v.both
        /\ result.summary.overlapPercentage =
             IF total > 0 THEN ExactPercent(v.both, total) ELSE 0

----------------------------------------------------------------------------
(* Claims about the recommendations, checked under SpecRecommend            *)

Recommended == op = "vinylRecommendations"

\* the indices of the results of the given tiers
ResultsOf(tiers) ==
  {i \in DOMAIN locals.matchResults : locals.matchResults[i].matchType \in tiers}

\* a recommendation names the album of result i
Recommends(j, i) ==
  /\ result.recommendations[j].album = locals.matchResults[i].spotifyAlbum.name
  /\ result.recommendations[j].artist
       = locals.matchResults[i].spotifyAlbum.artist

\* the indices of the not-owned results, in the order of the candidates
RECURSIVE NotOwnedFrom(_)
NotOwnedFrom(i) ==
  IF i > Len(locals.matchResults) THEN <<>>
  ELSE IF locals.matchResults[i].matchType \in {"artist_only", "no_match"}
       THEN <<i>> \o NotOwnedFrom(i + 1)
       ELSE NotOwnedFrom(i + 1)

\* C5: a result counts as owned iff its tier is exact or fuzzy: the
\* artist_only and no_match results are not counted in alreadyOwned and are
\* all recommended when the limit leaves room, no exact or fuzzy result is
\* recommended, and alreadyOwned plus the number of not-owned results is
\* analyzed, one result per candidate.
C5_OwnedIffExactOrFuzzy ==
  Recommended =>
    /\ \A i \in DOMAIN locals.matchResults :
         isOwned(locals.matchResults[i])
           <=> locals.matchResults[i].matchType \in {"exact", "fuzzy"}
    /\ Len(locals.matchResults) = Len(locals.albums)
    /\ result.summary.analyzed = Len(locals.albums)
    /\ result.summary.alreadyOwned = Cardinality(ResultsOf({"exact", "fuzzy"}))
    /\ result.summary.alreadyOwned
         + Cardinality(ResultsOf({"artist_only", "no_match"}))
         = result.summary.analyzed
    /\ \A i \in ResultsOf({"exact", "fuzzy"}) :
         \A j \in DOMAIN result.recommendations : ~Recommends(j, i)
    /\ Len(result.recommendations) < LimitOf(args.limit) =>
         \A i \in ResultsOf({"artist_only", "no_match"}) :
           \E j \in DOMAIN result.recommendations : Recommends(j, i)

\* an owned, an artist_only and a no_match result, the last two recommended
C5_Witness ==
  /\ Recommended
  /\ ResultsOf({"exact", "fuzzy"}) # {}
  /\ ResultsOf({"artist_only"}) # {}
  /\ ResultsOf({"no_match"}) # {}
  /\ result.summary.alreadyOwned = 1
  /\ Len(result.recommendations) = 2

\* C6: there are exactly min(limit, number of not-owned candidates)
\* recommendations, limit being Math.min(args.limit || 20, 50); they are the
\* first not-owned candidates in the order of the candidate list, and each
\* has a non-empty reason.
C6_FirstNotOwnedInOrder ==
  Recommended =>
    LET notOwned == NotOwnedFrom(1)
        expected == NumMin(LimitOf(args.limit), Len(notOwned))
    IN  /\ Len(result.recommendations) = expected
        /\ result.summary.recommended = expected
        /\ \A j \in 1..expected :
             /\ result.recommendations[j].album
                  = locals.albums[notOwned[j]].name
             /\ result.recommendations[j].artist
                  = locals.albums[notOwned[j]].artist
             /\ result.recommendations[j].reason # <<>>
             /\ \A k \in DOMAIN result.recommendations[j].reason :
                  result.recommendations[j].reason[k] # ""

\* a limit of 1 cuts two not-owned candidates that follow an owned one
C6_Witness ==
  /\ Recommended
  /\ args.limit = 1
  /\ Len(locals.matchResults) = 3
  /\ isOwned(locals.matchResults[1])
  /\ ~isOwned(locals.matchResults[2])
  /\ ~isOwned(locals.matchResults[3])
  /\ Len(result.recommendations) = 1
  /\ Recommends(1, 2)

-----------------------------------------------------------------------------
(* The normalizers and stringSimilarity applied to arbitrary strings         *)

MaxFragments == 3

\* the pieces the names and titles are put together from
Fragments ==
  { <<"T","h","e"," ">>, <<"U","p">>, <<" ">>, <<"(">>, <<")">>, <<"-">>,
    <<"m","o","n","o">>, <<"[">>, <<"]">> }

RECURSIVE Concat(_)
Concat(pieces) ==
  IF pieces = <<>> THEN <<>> ELSE Head(pieces) \o Concat(Tail(pieces))

Texts == {Concat(pieces) : pieces \in SeqsUpTo(Fragments, MaxFragments)}

NormalizeArtist ==
  /\ op = "none"
  /\ \E name \in Texts :
       /\ args' = [name |-> name]
       /\ result' = normalizeArtist(name)
  /\ op' = "normalizeArtist"
  /\ UNCHANGED <<upstream, locals>>

NormalizeAlbum ==
  /\ op = "none"
  /\ \E title \in Texts :
       /\ args' = [title |-> title]
       /\ result' = normalizeAlbum(title)
  /\ op' = "normalizeAlbum"
  /\ UNCHANGED <<upstream, locals>>

NextNormalize == NormalizeArtist \/ NormalizeAlbum

SpecNormalize == InitIdle /\ [][NextNormalize]_vars

MaxLength == 3

Letters == {"a", "b"}

StringSimilarity ==
  /\ op = "none"
  /\ \E a \in SeqsUpTo(Letters, MaxLength), b \in SeqsUpTo(Letters, MaxLength) :
       /\ args' = [a |-> a, b |-> b]
       /\ result' = stringSimilarity(a, b)
  /\ op' = "stringSimilarity"
  /\ UNCHANGED <<upstream, locals>>

NextSimilarity == StringSimilarity

SpecSimilarity == InitIdle /\ [][NextSimilarity]_vars

-----------------------------------------------------------------------------
(* Claims about the normalizers, checked under SpecNormalize                 *)

\* C13: normalizeAlbum is idempotent: normalizing a normalized title gives
\* the same title again, for every title.
C13_AlbumIdempotent ==
  op = "normalizeAlbum" => normalizeAlbum(result) = result

\* a title with an edition clause after a hyphen and a bracket pair, which
\* the first pass cut down to "up"
C13_Witness ==
  /\ op = "normalizeAlbum"
  /\ \E i \in DOMAIN args.title : args.title[i] \in {"-", "(", "["}
  /\ Len(args.title) > 3
  /\ result = <<"u", "p">>

\* C14: normalizeArtist is idempotent: normalizing a normalized name gives
\* the same name again, for every name, those with a repeated leading
\* article or with whitespace or punctuation before "The" included.
C14_AsStated ==
  op = "normalizeArtist" => normalizeArtist(result) = result

-----------------------------------------------------------------------------
(* Claims about stringSimilarity, checked under SpecSimilarity               *)

\* the least number of single-character insertions, deletions and
\* substitutions that turn a into b
RECURSIVE EditDistance(_, _)
EditDistance(a, b) ==
  IF a = <<>> THEN Len(b)
  ELSE IF b = <<>> THEN Len(a)
  ELSE Min3(EditDistance(Tail(a), b) + 1,
            EditDistance(a, Tail(b)) + 1,
            EditDistance(Tail(a), Tail(b)) + (IF Head(a) = Head(b) THEN 0 ELSE 1))

\* C15: stringSimilarity(a, b) is 1 when a = b, 0 when exactly one of a and
\* b is empty, and otherwise 1 - L / max(len(a), len(b)) with L the edit
\* distance of a and b; it is always within [0, 1] and is 1 only when a = b.
C15_SimilarityFormula ==
  op = "stringSimilarity" =>
    LET a == args.a
        b == args.b
    IN  /\ a = b => result = NumOne
        /\ (a = <<>>) # (b = <<>>) => result = NumZero
        /\ a # b /\ a # <<>> /\ b # <<>> =>
             result = NumSub(NumOne, NumDivNat(EditDistance(a, b),
                                               NumMax(Len(a), Len(b))))
        /\ NumGeq(result, NumZero)
        /\ NumGeq(NumOne, result)
        /\ result = NumOne => a = b

\* two different non-empty strings of different lengths, one edit apart
C15_Witness ==
  /\ op = "stringSimilarity"
  /\ args.a = <<"a", "b">>
  /\ args.b = <<"a", "a", "b">>
  /\ result = NumSub(NumOne, NumDivNat(1, 3))

\* C16: stringSimilarity is symmetric: stringSimilarity(a, b) =
\* stringSimilarity(b, a) for all strings a and b.
C16_Symmetric ==
  op = "stringSimilarity" => result = stringSimilarity(args.b, args.a)

\* strings of different lengths whose matrix is not square
C16_Witness ==
  /\ op = "stringSimilarity"
  /\ args.a = <<"a">>
  /\ args.b = <<"b", "b", "a">>
  /\ result = NumSub(NumOne, NumDivNat(2, 3))

-----------------------------------------------------------------------------
(* tools/collection-analysis: dates, the insights and the comparison        *)

DigitChars == <<"0","1","2","3","4","5","6","7","8","9">>

DigitValue(c) == (CHOOSE i \in DOMAIN DigitChars : DigitChars[i] = c) - 1

\* String(n) for a natural number n
RECURSIVE NatToChars(_)
NatToChars(n) ==
  IF n < 10 THEN <<DigitChars[n + 1]>>
  ELSE NatToChars(n \div 10) \o <<DigitChars[(n % 10) + 1]>>

\* the number NaN, and the time value of an Invalid Date
NaN == [nan |-> TRUE]

DaysInMonth(year, month) ==
  IF month = 2
  THEN (IF year % 4 = 0 /\ (year % 100 # 0 \/ year % 400 = 0) THEN 29 ELSE 28)
  ELSE IF month \in {4, 6, 9, 11} THEN 30 ELSE 31

\* new Date(s) for s a calendar date YYYY-MM-DD, which is midnight UTC of
\* that day, or a text without a digit, which is an Invalid Date
NewDate(s) ==
  IF /\ Len(s) = 10
     /\ s[5] = "-" /\ s[8] = "-"
     /\ \A i \in {1, 2, 3, 4, 6, 7, 9, 10} : s[i] \in Digits
  THEN LET year  == 1000 * DigitValue(s[1]) + 100 * DigitValue(s[2])
                      + 10 * DigitValue(s[3]) + DigitValue(s[4])
           month == 10 * DigitValue(s[6]) + DigitValue(s[7])
           day   == 10 * DigitValue(s[9]) + DigitValue(s[10])
       IN  IF month \in 1..12 /\ day \in 1..DaysInMonth(year, month)
           THEN [year |-> year, month |-> month, day |-> day]
           ELSE NaN
  ELSE NaN

\* date.getTime() / (1000 * 60 * 60 * 24): the days from 1970-01-01 to date
DayNumber(date) ==
  LET y   == IF date.month <= 2 THEN date.year - 1 ELSE date.year
      era == y \div 400
      yoe == y - era * 400
      mp  == IF date.month > 2 THEN date.month - 3 ELSE date.month + 9
      doy == (153 * mp + 2) \div 5 + date.day - 1
      doe == yoe * 365 + yoe \div 4 - yoe \div 100 + doy
  IN  era * 146097 + doe - 719468

\* `${date.getFullYear()}-${String(date.getMonth() + 1).padStart(2, "0")}`
\* in a process whose time zone is UTC
MonthKey(date) ==
  IF date = NaN THEN <<"N","a","N","-","N","a","N">>
  ELSE NatToChars(date.year) \o <<"-">>
         \o (IF date.month < 10 THEN <<"0">> ELSE <<>>) \o NatToChars(date.month)

\* a string where null may stand, and a number where null or NaN may
Text(s) == [text |-> s]

Number(n) == [number |-> n]

\* a string or null used as a condition: null and "" are false
Truthy(v) == v # Null /\ v # Text(<<>>)

\* the order of the UTF-16 code units of the characters of a month key
CodeOrder == <<"-">> \o DigitChars \o <<"N", "a">>

CodeOf(c) == CHOOSE i \in DOMAIN CodeOrder : CodeOrder[i] = c

\* a < b for strings, as Array.prototype.sort without a comparator has it
RECURSIVE StringLess(_, _)
StringLess(a, b) ==
  IF b = <<>> THEN FALSE
  ELSE IF a = <<>> THEN TRUE
  ELSE IF Head(a) # Head(b) THEN CodeOf(Head(a)) < CodeOf(Head(b))
  ELSE StringLess(Tail(a), Tail(b))

\* Object.keys(...).sort() for a set of keys
RECURSIVE SortedKeys(_)
SortedKeys(keys) ==
  IF keys = {} THEN <<>>
  ELSE LET least == CHOOSE k \in keys : \A l \in keys \ {k} : StringLess(k, l)
       IN  <<least>> \o SortedKeys(keys \ {least})

\* items.sort((a, b) => keys[b] - keys[a]): a stable sort, highest key first
SortDescending(items, keys) ==
  LET rank(i) ==
        1 + Cardinality({j \in DOMAIN items :
                           keys[j] > keys[i] \/ (keys[j] = keys[i] /\ j < i)})
  IN  [p \in DOMAIN items |-> items[CHOOSE i \in DOMAIN items : rank(i) = p]]

\* Object.entries of a record of counts filled by counted[k] = (counted[k] ||
\* 0) + 1 for each k of items in turn: the distinct keys as first met (none
\* of them an array index) with the number of times each is met
Tally(items) ==
  LET firsts == {i \in DOMAIN items : \A j \in 1..(i - 1) : items[j] # items[i]}
      nth(p) == CHOOSE i \in firsts : Cardinality({j \in firsts : j <= i}) = p
  IN  [p \in 1..Cardinality(firsts) |->
         <<items[nth(p)],
           Cardinality({j \in DOMAIN items : items[j] = items[nth(p)]})>>]

\* Object.entries(counted).sort((a, b) => b[1] - a[1]).slice(0, n)
TopEntries(items, n) ==
  LET entries == Tally(items)
      sorted  == SortDescending(entries, [i \in DOMAIN entries |-> entries[i][2]])
  IN  Take(sorted, NumMin(n, Len(sorted)))

Reverse(s) == [i \in DOMAIN s |-> s[Len(s) + 1 - i]]

\* s.slice(-n)
Last(s, n) == IF Len(s) > n THEN Drop(s, Len(s) - n) ELSE s

\* s.slice(0, n)
First(s, n) == IF Len(s) > n THEN Take(s, n) ELSE s

\* artistGenreMap.get(artistKey) || []
GenresOf(artistKey, artists) ==
  LET named == {i \in DOMAIN artists : normalizeArtist(artists[i].name) = artistKey}
  IN  IF named = {} THEN <<>>
      ELSE artists[CHOOSE i \in named : \A j \in named : j <= i].genres

\* collectionWithListening, the year left aside
CollectionWithListening(releases, releaseKeys, recentKeys, topTrackAlbums, artists) ==
  [i \in DOMAIN releases |->
     [album |-> releases[i].album,
      artist |-> releases[i].artist,
      dateAdded |-> releases[i].dateAdded,
      recentPlayCount |->
        Cardinality({j \in DOMAIN recentKeys : recentKeys[j] = releaseKeys[i]}),
      isInTopTracks |-> releaseKeys[i] \in topTrackAlbums,
      spotifyGenres |-> GenresOf(normalizeArtist(releases[i].artist), artists)]]

\* collectionTimeline
CollectionTimeline(releases) ==
  LET dated  == SelectSeq(releases, LAMBDA r : Truthy(r.dateAdded))
      months == [i \in DOMAIN dated |-> MonthKey(NewDate(dated[i].dateAdded.text))]
      sortedMonths == SortedKeys(Range(months))
      added(month) == Cardinality({i \in DOMAIN months : months[i] = month})
      upTo(p) == Cardinality({i \in DOMAIN months :
                   \E q \in 1..p : months[i] = sortedMonths[q]})
  IN  [p \in DOMAIN sortedMonths |->
         [month |-> sortedMonths[p],
          addedCount |-> added(sortedMonths[p]),
          cumulativeTotal |-> upTo(p)]]

\* the part of the response added in the modes insights and full
Insights(listening, releases) ==
  LET sortedByPlay ==
        SortDescending(listening,
                       [i \in DOMAIN listening |-> listening[i].recentPlayCount])
      played   == SelectSeq(sortedByPlay, LAMBDA a : a.recentPlayCount > 0)
      unplayed == SelectSeq(sortedByPlay,
                            LAMBDA a : a.recentPlayCount = 0 /\ ~a.isInTopTracks)
      most     == First(played, 10)
      least    == Reverse(Last(unplayed, 10))
      genres   == Concat([i \in DOMAIN listening |-> listening[i].spotifyGenres])
  IN  [mostPlayedOwned |->
         [i \in DOMAIN most |->
            [album |-> most[i].album, artist |-> most[i].artist,
             recentPlayCount |-> most[i].recentPlayCount]],
       leastPlayedOwned |->
         [i \in DOMAIN least |->
            [album |-> least[i].album, artist |-> least[i].artist,
             dateAdded |-> least[i].dateAdded]],
       genreBreakdown |-> TopEntries(genres, 20),
       collectionTimeline |-> CollectionTimeline(releases)]

\* Math.round(matchScore * 100) / 100
RoundedScore(matchScore) ==
  NumDivNat(MathRound(NumMul(matchScore, NumFromNat(100))), 100)

\* overlapAlbums
OverlapAlbums(matchResults) ==
  LET owned == SelectSeq(matchResults, isOwned)
  IN  [i \in DOMAIN owned |->
         [album |-> owned[i].spotifyAlbum.name,
          artist |-> owned[i].spotifyAlbum.artist,
          matchScore |-> RoundedScore(owned[i].matchScore)]]

\* missingFromCollection
MissingFromCollection(matchResults) ==
  LET ranks == SelectSeq([i \in DOMAIN matchResults |-> i],
                         LAMBDA i : ~isOwned(matchResults[i]))
  IN  [p \in DOMAIN ranks |->
         [album |-> matchResults[ranks[p]].spotifyAlbum.name,
          artist |-> matchResults[ranks[p]].spotifyAlbum.artist,
          listeningRank |-> ranks[p]]]

\* overlapArtists
OverlapArtists(releases, artists) ==
  LET ownedCount(i) ==
        Cardinality({r \in DOMAIN releases :
          normalizeArtist(releases[r].artist) = normalizeArtist(artists[i].name)})
      ranks == SelectSeq([i \in DOMAIN artists |-> i], LAMBDA i : ownedCount(i) > 0)
  IN  [p \in DOMAIN ranks |->
         [name |-> artists[ranks[p]].name,
          ownedAlbums |-> ownedCount(ranks[p]),
          spotifyRank |-> ranks[p]]]

\* daysSinceAdded, for now the whole days from 1970-01-01 to Date.now()
DaysSinceAdded(dateAdded, now) ==
  IF ~Truthy(dateAdded) THEN Null
  ELSE IF NewDate(dateAdded.text) = NaN THEN NaN
  ELSE Number(now - DayNumber(NewDate(dateAdded.text)))

\* unplayedInCollection as pushed, before it is sorted
UnplayedAsPushed(releases, matchResults, now) ==
  LET isListened(r) ==
        \E i \in DOMAIN matchResults :
          /\ isOwned(matchResults[i])
          /\ matchResults[i].discogsRelease.releaseId = r.releaseId
      unplayed == SelectSeq(releases, LAMBDA r : ~isListened(r))
  IN  [i \in DOMAIN unplayed |->
         [album |-> unplayed[i].album,
          artist |-> unplayed[i].artist,
          daysSinceAdded |-> DaysSinceAdded(unplayed[i].dateAdded, now)]]

\* the comparator of unplayedInCollection.sort, a NaN difference read as 0
CompareUnplayed(a, b) ==
  IF a.daysSinceAdded = Null THEN 1
  ELSE IF b.daysSinceAdded = Null THEN -1
  ELSE IF a.daysSinceAdded = NaN \/ b.daysSinceAdded = NaN THEN 0
  ELSE b.daysSinceAdded.number - a.daysSinceAdded.number

\* the orders unplayedInCollection.sort may leave: the stable order when the
\* comparator orders the entries consistently, and otherwise any order that
\* contradicts no pair the comparator orders the same way from both sides
SortedUnplayed(entries) ==
  LET n == Len(entries)
      definite(x, y) == CompareUnplayed(x, y) < 0 /\ CompareUnplayed(y, x) > 0
      tied(x, y) == CompareUnplayed(x, y) = 0 /\ CompareUnplayed(y, x) = 0
      consistent ==
        /\ \A i, j \in 1..n : i # j =>
             \/ definite(entries[i], entries[j])
             \/ definite(entries[j], entries[i])
             \/ tied(entries[i], entries[j])
        /\ \A i, j, k \in 1..n :
             tied(entries[i], entries[j]) /\ tied(entries[j], entries[k])
               => tied(entries[i], entries[k]) \/ i = k
      orders == {p \in [1..n -> 1..n] : \A i, j \in 1..n : i # j => p[i] # p[j]}
  IN  { [i \in 1..n |-> entries[p[i]]] :
          p \in {q \in orders :
                   \A i, j \in 1..n : i < j =>
                     /\ ~definite(entries[q[j]], entries[q[i]])
                     /\ consistent /\ tied(entries[q[i]], entries[q[j]])
                          => q[i] < q[j]} }

\* JSON.stringify of a number: NaN is written as null
JsonNumber(x) == IF x = NaN THEN Null ELSE x

\* the part of the response added in the modes comparison and full
Comparison(releases, artists, matchResults, unplayedInCollection) ==
  LET missingFromCollection == MissingFromCollection(matchResults)
      missingArtists  == [i \in DOMAIN missingFromCollection |->
                            missingFromCollection[i].artist]
      unplayedArtists == [i \in DOMAIN unplayedInCollection |->
                            unplayedInCollection[i].artist]
      topMissing  == TopEntries(missingArtists, 5)
      topUnplayed == TopEntries(unplayedArtists, 5)
      unplayed    == First(unplayedInCollection, 25)
  IN  [overlap |->
         [albums |-> First(OverlapAlbums(matchResults), 25),
          artists |-> OverlapArtists(releases, artists)],
       gaps |->
         [missingFromCollection |-> First(missingFromCollection, 25),
          unplayedInCollection |->
            [i \in DOMAIN unplayed |->
               [album |-> unplayed[i].album,
                artist |-> unplayed[i].artist,
                daysSinceAdded |-> JsonNumber(unplayed[i].daysSinceAdded)]]],
       topMissingArtists |-> [i \in DOMAIN topMissing |-> topMissing[i][1]],
       topUnplayedArtists |-> [i \in DOMAIN topUnplayed |-> topUnplayed[i][1]]]

\* the response in a mode, from the values of the handler's loops
FullResponse(releases, artists, matchResults, listening, listeningCounts,
             unplayedInCollection, mode, time_range) ==
  LET counts ==
        [collectionLength |-> Len(releases),
         listenedLength |-> Len(matchResults),
         listening |-> listeningCounts,
         matched |-> MatchCounts(matchResults)]
      includeInsights   == mode \in {"", "insights", "full"}
      includeComparison == mode \in {"", "comparison", "full"}
  IN  AnalysisResponse(counts, time_range)
        @@ (IF includeInsights THEN Insights(listening, releases) ELSE <<>>)
        @@ (IF includeComparison
            THEN Comparison(releases, artists, matchResults, unplayedInCollection)
            ELSE <<>>)

-----------------------------------------------------------------------------
(* SpecInsights: the whole analysis of a small dated collection             *)

MaxShelf == 2
MaxHeard == 2

DatedRelease(id, artist, album, dateAdded) ==
  [releaseId |-> id, artist |-> artist, album |-> album, dateAdded |-> dateAdded]

\* two records under one normalized key, one of them without a date, and a
\* record whose date is no date
DatedReleases ==
  { DatedRelease("1", Name.Beatles, Name.Help,
                 Text(<<"2","0","2","3","-","0","5","-","1","5">>)),
    DatedRelease("2", Name.TheBeatles, Name.HelpBang, Null),
    DatedRelease("3", Name.Blur, Name.Low,
                 Text(<<"u","n","k","n","o","w","n">>)) }

HeardTracks ==
  { Track(Name.Beatles, Name.Help),
    Track(Name.Blur, Name.Up) }

PlayedRecently ==
  { <<>>,
    <<Track(Name.Beatles, Name.Help), Track(Name.Bush, Name.Us),
      Track(Name.Beatles, Name.Help)>> }

GenreArtist(name, genres) == [name |-> name, genres |-> genres]

GenreArtistLists ==
  { <<>>,
    <<GenreArtist(Name.Blur, <<"britpop", "rock">>),
      GenreArtist(Name.TheBeatles, <<"rock">>)>> }

Modes == {"", "insights", "comparison", "full"}

\* Date.now(), in whole days
Today == DayNumber([year |-> 2024, month |-> 6, day |-> 30])

InitInsights ==
  /\ collection \in SeqsUpTo(DatedReleases, MaxShelf)
  /\ topTracks \in SeqsUpTo(HeardTracks, MaxHeard)
  /\ recentTracks \in PlayedRecently
  /\ topArtists \in GenreArtistLists
  /\ savedAlbums = <<>>
  /\ args = Null
  /\ locals = Null
  /\ result = Null
  /\ client = Null
  /\ keychain = Null
  /\ op = "none"

\* the handler with all the sections of its response
GetCollectionAnalysis ==
  /\ op = "none"
  /\ \E matchResults \in
          {matchAlbumsToCollection(extractUniqueAlbums(topTracks \o recentTracks),
                                   collection)},
        listening \in
          {CollectionWithListening(collection, TrackKeys(collection),
                                   TrackKeys(recentTracks),
                                   Range(TrackKeys(topTracks)), topArtists)},
        now \in {Today} :
       \E unplayedInCollection \in
            SortedUnplayed(UnplayedAsPushed(collection, matchResults, now)) :
         \E mode \in Modes, time_range \in TimeRanges :
           /\ args' = [mode |-> mode, time_range |-> time_range]
           /\ locals' = [now |-> now]
           /\ result' =
                FullResponse(collection, topArtists, matchResults, listening,
                             ListeningCounts(TrackKeys(collection),
                                             TrackKeys(recentTracks),
                                             Range(TrackKeys(topTracks))),
                             unplayedInCollection, mode, time_range)
  /\ op' = "collectionAnalysis"
  /\ UNCHANGED upstream

NextInsights == GetCollectionAnalysis

SpecInsights == InitInsights /\ [][NextInsights]_vars

-----------------------------------------------------------------------------
(* Claims about the whole analysis, checked under SpecInsights               *)

\* the releases whose normalized pair is that of a recently played track or
\* of a top track
ListenedReleases ==
  {i \in DOMAIN collection :
     \/ \E j \in DOMAIN recentTracks :
          NormalizedPair(recentTracks[j]) = NormalizedPair(collection[i])
     \/ \E j \in DOMAIN topTracks :
          NormalizedPair(topTracks[j]) = NormalizedPair(collection[i])}

\* C11: every release of the collection is counted exactly once: in
\* ownedAndListened iff its normalized (artist, album) key has a recent play
\* or is the key of a top track, in ownedNotListened otherwise; the two
\* counts add up to the number of releases.
C11_ClassifiedOnce ==
  Analyzed =>
    /\ result.summary.ownedAndListened = Cardinality(ListenedReleases)
    /\ result.summary.ownedNotListened =
         Cardinality(DOMAIN collection \ ListenedReleases)
    /\ result.summary.ownedAndListened + result.summary.ownedNotListened
         = Len(collection)

\* two releases, one both played recently and among the top tracks' albums,
\* each time under another spelling, and one neither
C11_Witness ==
  /\ Analyzed
  /\ Len(collection) = 2
  /\ collection[1].releaseId = "2"
  /\ collection[2].releaseId = "3"
  /\ recentTracks # <<>>
  /\ \E j \in DOMAIN topTracks : topTracks[j] = Track(Name.Beatles, Name.Help)
  /\ result.summary.ownedAndListened = 1
  /\ result.summary.ownedNotListened = 1

\* the lists of the response
ListOutputs ==
  (IF "mostPlayedOwned" \in DOMAIN result
   THEN {result.mostPlayedOwned, result.leastPlayedOwned,
         result.genreBreakdown, result.collectionTimeline}
   ELSE {})
  \cup
  (IF "overlap" \in DOMAIN result
   THEN {result.overlap.albums, result.overlap.artists,
         result.gaps.missingFromCollection, result.gaps.unplayedInCollection,
         result.topMissingArtists, result.topUnplayedArtists}
   ELSE {})

\* C12: with an empty collection the analysis completes with alignmentScore,
\* ownedAndListened, vennData.onlyOwned and vennData.both all 0, whatever the
\* listening data; with the listening data empty as well, every score is 0
\* and every list of the response is empty.
C12_DegenerateInput ==
  Analyzed /\ collection = <<>> =>
    /\ result.summary.alignmentScore = 0
    /\ result.summary.ownedAndListened = 0
    /\ result.vennData.onlyOwned = 0
    /\ result.vennData.both = 0
    /\ topTracks = <<>> /\ recentTracks = <<>> /\ topArtists = <<>> =>
         /\ result.summary.overlapPercentage = 0
         /\ \A list \in ListOutputs : list = <<>>

\* an empty collection analysed in full against tracks and artists
C12_Witness ==
  /\ Analyzed
  /\ collection = <<>>
  /\ Len(topTracks) = 2
  /\ recentTracks # <<>>
  /\ topArtists # <<>>
  /\ args.mode = "full"
  /\ result.summary.listenedNotOwned = 3
  /\ result.vennData.onlyListened = 3

\* the releases whose dateAdded is not null and is no date
Undated ==
  {i \in DOMAIN collection :
     /\ collection[i].dateAdded # Null
     /\ NewDate(collection[i].dateAdded.text) = NaN}

\* C17: when a release has a dateAdded that is not null and does not parse to
\* a date, the analysis ends in an error and returns no result, so that no
\* timeline bucket and no days-since-added comes from such a date.
C17_AsStated ==
  Undated # {} => ~Analyzed

-----------------------------------------------------------------------------
(* SpecFetch: the handler's four fetches under Promise.all                  *)

MaxFetched == 1

\* the fetches in the order of the array given to Promise.all
Fetches == <<"collection", "topTracks", "topArtists", "recentTracks">>

\* what a fetch delivers when it succeeds
Upstream(fetch) ==
  CASE fetch = "collection"   -> collection
    [] fetch = "topTracks"    -> topTracks
    [] fetch = "topArtists"   -> topArtists
    [] fetch = "recentTracks" -> recentTracks

\* PromiseAll as Promise.allSettled is: fulfilled once no promise is pending
PromiseAllSettled(status) ==
  IF \A f \in Range(Fetches) : status[f] # "pending" THEN "fulfilled"
  ELSE "pending"

\* the state of Promise.all(...) for the states of the promises given to it
PromiseAll(status) ==
  IF \E f \in Range(Fetches) : status[f] = "rejected" THEN "rejected"
  ELSE IF \A f \in Range(Fetches) : status[f] = "fulfilled" THEN "fulfilled"
  ELSE "pending"

\* the responses the handler may build from the values fetched
ResponsesFrom(releases, artists, matchResults, listening, listeningCounts,
              mode, time_range, now) ==
  { FullResponse(releases, artists, matchResults, listening, listeningCounts,
                 unplayedInCollection, mode, time_range) :
      unplayedInCollection \in
        SortedUnplayed(UnplayedAsPushed(releases, matchResults, now)) }

Responses(releases, top, artists, recent, mode, time_range, now) ==
  ResponsesFrom(releases, artists,
    matchAlbumsToCollection(extractUniqueAlbums(top \o recent), releases),
    CollectionWithListening(releases, TrackKeys(releases), TrackKeys(recent),
                            Range(TrackKeys(top)), artists),
    ListeningCounts(TrackKeys(releases), TrackKeys(recent), Range(TrackKeys(top))),
    mode, time_range, now)

InitFetch ==
  /\ collection \in SeqsUpTo(DatedReleases, MaxFetched)
  /\ topTracks = <<Track(Name.Beatles, Name.Help), Track(Name.Blur, Name.Up)>>
  /\ recentTracks \in PlayedRecently
  /\ topArtists = <<GenreArtist(Name.TheBeatles, <<"rock">>)>>
  /\ savedAlbums = <<>>
  /\ args = Null
  /\ locals = Null
  /\ result = Null
  /\ client = Null
  /\ keychain = Null
  /\ op = "none"

\* the handler up to its await: the four requests are on their way
RequestAnalysis ==
  /\ op = "none"
  /\ \E mode \in Modes, time_range \in TimeRanges :
       args' = [mode |-> mode, time_range |-> time_range]
  /\ locals' = [status |-> [f \in Range(Fetches) |-> "pending"],
                values |-> [f \in Range(Fetches) |-> <<>>],
                order  |-> <<>>]
  /\ op' = "awaiting"
  /\ UNCHANGED <<upstream, result>>

\* one of the requests is answered
FetchSucceeds ==
  /\ op \in {"awaiting", "failed"}
  /\ \E f \in Range(Fetches) :
       /\ locals.status[f] = "pending"
       /\ locals' = [locals EXCEPT !.status[f] = "fulfilled",
                                   !.values[f] = Upstream(f),
                                   !.order = Append(@, f)]
  /\ UNCHANGED <<upstream, args, result, op>>

\* one of the requests fails
FetchFails ==
  /\ op \in {"awaiting", "failed"}
  /\ \E f \in Range(Fetches) :
       /\ locals.status[f] = "pending"
       /\ locals' = [locals EXCEPT !.status[f] = "rejected",
                                   !.order = Append(@, f)]
  /\ UNCHANGED <<upstream, args, result, op>>

\* the handler after its await, with the four values in the array's order
ResumeAnalysis ==
  /\ op = "awaiting"
  /\ PromiseAll(locals.status) = "fulfilled"
  /\ \E now \in {Today} :
       /\ result' \in Responses(locals.values[Fetches[1]], locals.values[Fetches[2]],
                                locals.values[Fetches[3]], locals.values[Fetches[4]],
                                args.mode, args.time_range, now)
       /\ locals' = [now |-> now] @@ locals
  /\ op' = "collectionAnalysis"
  /\ UNCHANGED <<upstream, args>>

\* the await throws what the first failed request threw
AnalysisFails ==
  /\ op = "awaiting"
  /\ PromiseAll(locals.status) = "rejected"
  /\ op' = "failed"
  /\ UNCHANGED <<upstream, args, locals, result>>

NextFetch ==
  \/ RequestAnalysis
  \/ FetchSucceeds
  \/ FetchFails
  \/ ResumeAnalysis
  \/ AnalysisFails

SpecFetch == InitFetch /\ [][NextFetch]_vars

-----------------------------------------------------------------------------
(* Claims about the fetches, checked under SpecFetch                         *)

Rejected == {f \in Range(Fetches) : locals.status[f] = "rejected"}

\* C18: the analysis is built only once all four fetches have succeeded, it
\* is the analysis of the four values fetched whatever the order in which
\* they arrived, and once a fetch has failed the handler fails and returns
\* nothing.
C18_AllOrNothing ==
  op # "none" =>
    /\ Analyzed =>
         /\ \A f \in Range(Fetches) : locals.status[f] = "fulfilled"
         /\ result \in Responses(collection, topTracks, topArtists, recentTracks,
                                 args.mode, args.time_range, locals.now)
    /\ ~Analyzed => result = Null
    /\ Rejected # {} => op \in {"awaiting", "failed"}
    /\ op = "failed" => Rejected # {}

\* the answers arrived in the reverse of the order of the requests
C18_Witness ==
  /\ Analyzed
  /\ collection # <<>>
  /\ recentTracks # <<>>
  /\ locals.order = Reverse(Fetches)
  /\ result.summary.totalInCollection = 1

-----------------------------------------------------------------------------
(* services/discogs-client: DiscogsClient.getCollection                      *)

MaxItems == 4
PerPage == 2
MaxAsked == 3

\* a release as the Discogs API lists it
ApiRelease(id, title, artists, date_added) ==
  [date_added |-> date_added,
   basic_information |->
     [id |-> id, title |-> title,
      artists |-> [i \in DOMAIN artists |-> [name |-> artists[i]]]]]

ApiReleases ==
  { ApiRelease(1, Name.Help, <<Name.Beatles>>,
               <<"2","0","2","3","-","0","5","-","1","5">>),
    ApiRelease(2, Name.Low, <<>>, <<>>),
    ApiRelease(3, Name.KidA, <<Name.Radiohead, Name.Blur>>,
               <<"2","0","2","2","-","1","1","-","0","2">>) }

\* the object pushed to allReleases, the fields of the analysis only
DiscogsRelease(release) ==
  LET info == release.basic_information
  IN  [releaseId |-> NatToChars(info.id),
       artist |-> IF info.artists # <<>> /\ info.artists[1].name # <<>>
                  THEN info.artists[1].name
                  ELSE <<"U","n","k","n","o","w","n">>,
       album |-> info.title,
       dateAdded |-> IF release.date_added # <<>>
                     THEN Text(release.date_added) ELSE Null]

\* the releases of a page of the listing
PageOf(items, page) ==
  SubSeq(items, (page - 1) * PerPage + 1, NumMin(page * PerPage, Len(items)))

\* pagination.pages: an empty listing is reported with no page or with one
PagesReported(items) ==
  IF items = <<>> THEN {0, 1}
  ELSE {(Len(items) + PerPage - 1) \div PerPage}

\* the loop over data.releases with > for >= in the test of the limit
RECURSIVE PushReleasesGt(_, _, _)
PushReleasesGt(allReleases, releases, limit) ==
  IF releases = <<>> THEN [allReleases |-> allReleases, returned |-> FALSE]
  ELSE LET pushed == Append(allReleases, DiscogsRelease(Head(releases)))
       IN  IF limit # 0 /\ Len(pushed) > limit
           THEN [allReleases |-> pushed, returned |-> TRUE]
           ELSE PushReleasesGt(pushed, Tail(releases), limit)

\* the loop over data.releases: allReleases after it, and whether it returned
RECURSIVE PushReleases(_, _, _)
PushReleases(allReleases, releases, limit) ==
  IF releases = <<>> THEN [allReleases |-> allReleases, returned |-> FALSE]
  ELSE LET pushed == Append(allReleases, DiscogsRelease(Head(releases)))
       IN  IF limit # 0 /\ Len(pushed) >= limit
           THEN [allReleases |-> pushed, returned |-> TRUE]
           ELSE PushReleases(pushed, Tail(releases), limit)

\* the listing at Discogs, the tokens loaded and the user name known
InitCollection ==
  /\ collection \in SeqsUpTo(ApiReleases, MaxItems)
  /\ topTracks = <<>>
  /\ recentTracks = <<>>
  /\ topArtists = <<>>
  /\ savedAlbums = <<>>
  /\ args = Null
  /\ locals = Null
  /\ result = Null
  /\ client = Null
  /\ keychain = Null
  /\ op = "none"

\* getCollection(limit) up to its loop; no limit and a limit of 0 are the same
GetCollection ==
  /\ op = "none"
  /\ \E limit \in 0..MaxAsked : args' = [limit |-> limit]
  /\ locals' = [allReleases |-> <<>>, page |-> 1, totalCount |-> 0,
                requested |-> <<>>, pages |-> 0]
  /\ op' = "requesting"
  /\ UNCHANGED <<upstream, result>>

\* one turn of the loop: the page asked for arrives
PageArrives ==
  /\ op = "requesting"
  /\ \E pages \in PagesReported(collection) :
       LET read == PushReleases(locals.allReleases,
                                PageOf(collection, locals.page), args.limit)
           requested == Append(locals.requested, locals.page)
       IN  IF read.returned
           THEN /\ result' = [collection |-> First(read.allReleases, args.limit),
                              totalCount |-> Len(collection)]
                /\ locals' = [locals EXCEPT !.allReleases = read.allReleases,
                                            !.totalCount = Len(collection),
                                            !.requested = requested,
                                            !.pages = pages]
                /\ op' = "getCollection"
           ELSE IF locals.page >= pages
           THEN /\ result' = [collection |-> read.allReleases,
                              totalCount |-> Len(collection)]
                /\ locals' = [locals EXCEPT !.allReleases = read.allReleases,
                                            !.totalCount = Len(collection),
                                            !.requested = requested,
                                            !.pages = pages]
                /\ op' = "getCollection"
           ELSE /\ locals' = [locals EXCEPT !.allReleases = read.allReleases,
                                            !.totalCount = Len(collection),
                                            !.requested = requested,
                                            !.pages = pages,
                                            !.page = @ + 1]
                /\ UNCHANGED <<result, op>>
  /\ UNCHANGED <<upstream, args>>

\* the page asked for is refused: apiRequest throws
RequestFails ==
  /\ op = "requesting"
  /\ locals' = [locals EXCEPT !.requested = Append(@, locals.page)]
  /\ op' = "failed"
  /\ UNCHANGED <<upstream, args, result>>

NextCollection == GetCollection \/ PageArrives \/ RequestFails

\* every request made is answered or refused
SpecCollection ==
  InitCollection /\ [][NextCollection]_vars
    /\ WF_vars(PageArrives \/ RequestFails)

-----------------------------------------------------------------------------
(* Claims about getCollection, checked under SpecCollection                  *)

\* the whole listing as getCollection returns it
WholeListing == [i \in DOMAIN collection |-> DiscogsRelease(collection[i])]

\* the number of the page that holds the n-th release
PageHolding(n) == (n + PerPage - 1) \div PerPage

\* the pages are asked for in order, and the call returns the releases of
\* the listing in order: all of them after the first page whose number is
\* at least pagination.pages, or the first args.limit of them after the
\* page that holds the last of these
GetCollectionReturns ==
  op # "none" =>
    /\ locals.requested = [i \in 1..Len(locals.requested) |-> i]
    /\ op = "getCollection" =>
         LET asked == IF args.limit = 0 THEN Len(collection)
                      ELSE NumMin(args.limit, Len(collection))
         IN  /\ result.collection = Take(WholeListing, asked)
             /\ asked = Len(collection) /\ args.limit # Len(collection) =>
                  /\ Len(locals.requested) >= locals.pages
                  /\ \A page \in 1..(Len(locals.requested) - 1) :
                       page < locals.pages
             /\ args.limit \in 1..Len(collection) =>
                  Len(locals.requested) = PageHolding(args.limit)

\* C19: getCollection terminates; it asks for the pages 1, 2, ... in order,
\* stops after the page whose number is at least pagination.pages and returns
\* all releases in the listing's order; given a limit L >= 1 it returns the
\* first min(L, total) releases and asks for no page after the one that
\* holds the L-th release.
C19_PagesInOrderThenReturns ==
  /\ []GetCollectionReturns
  /\ (op = "requesting") ~> (op \in {"getCollection", "failed"})

\* the third of four releases was asked for and the second page was the last read
C19_Witness ==
  /\ op = "getCollection"
  /\ Len(collection) = 4
  /\ args.limit = 3
  /\ locals.requested = <<1, 2>>
  /\ Len(result.collection) = 3
  /\ result.collection[2].artist = <<"U","n","k","n","o","w","n">>

(***************************************************************************)
(* services/spotify-client: the tokens of the SpotifyClient.  One client   *)
(* serves every tool, so several apiRequest calls can be in flight at      *)
(* once.  A step is what runs between two completions of I/O: the keychain *)
(* read that every waiting loadTokens shares (token-storage's loadPromise) *)
(* resumes all of them in one step.  A call that has settled keeps none of *)
(* its locals.                                                             *)
(***************************************************************************)

\* the calls in flight at once: the first two of the Promise.all of the
\* collection analysis, in the order they are made
Calls == <<"getTopTracks", "getTopArtists">>

MaxWaits == 1

\* Date.now() when the first request is made, in ms
Started == 1000 * 1000

\* data.expires_in of the answers of accounts.spotify.com, in seconds
ExpiresIn == {3600}

SpotifyTokens(accessToken, refreshToken, expiresAt) ==
  [accessToken |-> accessToken, refreshToken |-> refreshToken,
   expiresAt |-> expiresAt]

\* what the keychain can hold: nothing, tokens without a known expiry,
\* tokens 60 s and 60.001 s before their expiry
StoredTokens ==
  {Null} \cup {SpotifyTokens("access", "refresh", expiresAt) :
                 expiresAt \in {0, Started + 60000, Started + 60001}}

\* SPOTIFY_ACCESS_TOKEN and SPOTIFY_REFRESH_TOKEN: both set or both unset
EnvTokens == {SpotifyTokens("", "", 0), SpotifyTokens("access-env", "refresh-env", 0)}

\* the tokens accounts.spotify.com answers to the refresh of a request: new
\* ones at every refresh
Issued(kind, r, fetches) ==
  kind \o "-" \o Calls[r] \o (IF fetches = 0 THEN "" ELSE "-retry")

isTokenExpiredNoMargin(expiresAt, now) == expiresAt > 0 /\ now >= expiresAt

isTokenExpired(expiresAt, now) == expiresAt > 0 /\ now >= expiresAt - 60000

\* loadTokens() after the keychain was read: the fields of the client
LoadedTokens(tokens, env) ==
  IF tokens # Null
  THEN [accessToken |-> tokens.accessToken, refreshToken |-> tokens.refreshToken,
        expiresAt |-> tokens.expiresAt, tokensLoaded |-> TRUE]
  ELSE [accessToken |-> env.accessToken, refreshToken |-> env.refreshToken,
        expiresAt |-> 0, tokensLoaded |-> TRUE]

\* refreshAccessToken() from the answer on: the fields of the client
RefreshedTokens(spotify, data, now) ==
  [spotify EXCEPT !.accessToken = data.access_token,
                  !.expiresAt = now + data.expires_in * 1000,
                  !.refreshToken = IF data.refresh_token # ""
                                   THEN data.refresh_token ELSE @]

\* a call of apiRequest: where it is, what isTokenExpired() saw, the refresh
\* made before its first fetch, the tokens it is saving, the fetches it sent
Request(pc) ==
  [pc |-> pc, seen |-> Null, refresh |-> Null, saving |-> Null, sends |-> <<>>]

\* the fetch of apiRequest: the token it carries, and the keychain then
Sent(request, spotify, stored) ==
  [request EXCEPT !.pc = "sent",
                  !.saving = Null,
                  !.sends = Append(@, [bearer |-> spotify.accessToken,
                                       keychain |-> stored])]

\* ensureValidToken() once loadTokens() has returned, and the fetch if no
\* refresh is due
EnsureValidToken(request, spotify, stored, now) ==
  LET seen == [request EXCEPT !.seen = [accessToken |-> spotify.accessToken,
                                        expiresAt |-> spotify.expiresAt,
                                        now |-> now]]
  IN  IF isTokenExpired(spotify.expiresAt, now)
      THEN [seen EXCEPT !.pc = "refreshing"]
      ELSE Sent(seen, spotify, stored)

InitToken ==
  /\ collection = <<>>
  /\ topTracks = <<>>
  /\ recentTracks = <<>>
  /\ topArtists = <<>>
  /\ savedAlbums = <<>>
  /\ args = Null
  /\ result = Null
  /\ client = [accessToken |-> "", refreshToken |-> "", expiresAt |-> 0,
               tokensLoaded |-> FALSE]
  /\ keychain \in StoredTokens
  /\ \E env \in EnvTokens :
       /\ env.accessToken = "" => keychain = Null
       /\ locals = [now |-> Started, waits |-> 0, env |-> env,
                    requests |-> [r \in DOMAIN Calls |-> Request("idle")]]
  /\ op = "none"

Requests == DOMAIN locals.requests

At(r, pc) == locals.requests[r].pc = pc

\* apiRequest(endpoint) is called: up to the keychain read of loadTokens(),
\* or up to the refresh or the fetch when the tokens are loaded already
ApiRequest ==
  /\ op \in {"none", "spotify"}
  /\ \E r \in Requests :
       /\ At(r, "idle")
       /\ \A earlier \in 1..(r - 1) : ~At(earlier, "idle")
       /\ locals' = [locals EXCEPT !.requests[r] =
                       IF client.tokensLoaded
                       THEN EnsureValidToken(@, client, keychain, locals.now)
                       ELSE Request("loading")]
  /\ op' = "spotify"
  /\ UNCHANGED <<collection, topTracks, recentTracks, topArtists, savedAlbums,
                 client, keychain, args, result>>

\* the keychain read ends: every loadTokens() waiting for it goes on, then
\* every ensureValidToken() behind them
KeychainRead ==
  /\ \E r \in Requests : At(r, "loading")
  /\ \E loaded \in {LoadedTokens(keychain, locals.env)} :
       /\ client' = loaded
       /\ locals' = [locals EXCEPT !.requests = [r \in Requests |->
            IF ~At(r, "loading") THEN @[r]
            ELSE IF keychain = Null /\ (loaded.accessToken = "" \/ loaded.refreshToken = "")
                 THEN Request("failed")
                 ELSE EnsureValidToken(@[r], loaded, keychain, locals.now)]]
  /\ UNCHANGED <<collection, topTracks, recentTracks, topArtists, savedAlbums,
                 keychain, args, result, op>>

\* refreshAccessToken(): the answer is ok; up to the save in the keychain
RefreshSucceeds ==
  /\ \E r \in Requests, expires_in \in ExpiresIn, rotated \in BOOLEAN :
       /\ At(r, "refreshing")
       /\ \E fetches \in {Len(locals.requests[r].sends)} :
          \E data \in {[access_token |-> Issued("access", r, fetches),
                        expires_in |-> expires_in,
                        refresh_token |-> IF rotated
                                          THEN Issued("refresh", r, fetches)
                                          ELSE ""]} :
          \E refreshed \in {RefreshedTokens(client, data, locals.now)} :
          \E saving \in {SpotifyTokens(refreshed.accessToken,
                                       refreshed.refreshToken,
                                       refreshed.expiresAt)} :
            /\ client' = refreshed
            /\ locals' = [locals EXCEPT
                 !.requests[r].pc = "saving",
                 !.requests[r].saving = saving,
                 !.requests[r].refresh =
                    IF fetches = 0
                    THEN [data |-> data, now |-> locals.now,
                          previous |-> client.refreshToken, saving |-> saving]
                    ELSE @]
  /\ UNCHANGED <<collection, topTracks, recentTracks, topArtists, savedAlbums,
                 keychain, args, result, op>>

\* refreshAccessToken(): the answer is not ok
RefreshFails ==
  /\ \E r \in Requests :
       /\ At(r, "refreshing")
       /\ locals' = [locals EXCEPT !.requests[r] = Request("failed")]
  /\ UNCHANGED <<upstream, args, result, op>>

\* saveSpotifyTokens(...) ends, refreshAccessToken() returns, and apiRequest
\* sends its fetch with this.accessToken
TokensSaved ==
  /\ \E r \in Requests :
       /\ At(r, "saving")
       /\ \E saved \in {locals.requests[r].saving} :
            /\ keychain' = saved
            /\ locals' = [locals EXCEPT !.requests[r] = Sent(@, client, saved)]
  /\ UNCHANGED <<collection, topTracks, recentTracks, topArtists, savedAlbums,
                 client, args, result, op>>

\* keytar.setPassword(...) rejects
SaveFails ==
  /\ \E r \in Requests :
       /\ At(r, "saving")
       /\ locals' = [locals EXCEPT !.requests[r] = Request("failed")]
  /\ UNCHANGED <<upstream, args, result, op>>

\* the answer to the fetch, with a refresh after every 401
RespondsRefreshingAgain ==
  /\ \E r \in Requests, status \in {200, 401, 500} :
       /\ At(r, "sent")
       /\ locals' = [locals EXCEPT !.requests[r] =
            IF status = 200 THEN Request("done")
            ELSE IF status = 401
                 THEN [@ EXCEPT !.pc = "refreshing"]
                 ELSE Request("failed")]
  /\ UNCHANGED <<upstream, args, result, op>>

\* the answer to the fetch: a 401 to the first fetch starts a refresh and a
\* second fetch
Responds ==
  /\ \E r \in Requests, status \in {200, 401, 500} :
       /\ At(r, "sent")
       /\ locals' = [locals EXCEPT !.requests[r] =
            IF status = 200 THEN Request("done")
            ELSE IF status = 401 /\ Len(@.sends) = 1
                 THEN [@ EXCEPT !.pc = "refreshing"]
                 ELSE Request("failed")]
  /\ UNCHANGED <<upstream, args, result, op>>

\* time passes until a token issued at locals.now is 60 s before its expiry
TimePasses ==
  /\ op = "spotify"
  /\ locals.waits < MaxWaits
  /\ locals' = [locals EXCEPT !.waits = @ + 1,
                              !.now = @ + 3600 * 1000 - 60000]
  /\ UNCHANGED <<upstream, args, result, op>>

NextToken ==
  \/ ApiRequest
  \/ KeychainRead
  \/ RefreshSucceeds
  \/ RefreshFails
  \/ TokensSaved
  \/ SaveFails
  \/ Responds
  \/ TimePasses

SpecToken == InitToken /\ [][NextToken]_vars

\* the access tokens the refreshes can answer
AccessTokensIssued ==
  {Issued("access", r, fetches) : r \in Requests, fetches \in {0, 1}}

\* the stored expiry was known and 60 s or less ahead when the request
\* was made
RefreshDue(request) ==
  /\ request.seen # Null
  /\ request.seen.expiresAt > 0
  /\ request.seen.now >= request.seen.expiresAt - 60000

\* C20: a request made while the stored expiry is known and at most 60 s
\* ahead sends its fetch only after a refresh of its own was answered and
\* saved: the fetch carries an access token that a refresh issued, never the
\* one found expired; the keychain then holds the tokens of that refresh,
\* with the answer's access token, its expiry, and the previous refresh
\* token when the answer names none; and while the refresh is not answered,
\* or once it failed, nothing was sent.
C20_RefreshBeforeRequest ==
  \A r \in Requests :
    LET request == locals.requests[r] IN
    /\ RefreshDue(request) =>
         /\ request.refresh = Null => request.sends = <<>>
         /\ request.sends # <<>> =>
              /\ request.sends[1].bearer \in AccessTokensIssued
              /\ request.sends[1].bearer # request.seen.accessToken
              /\ LET refresh == request.refresh IN
                 /\ request.sends[1].keychain = refresh.saving
                 /\ refresh.saving.accessToken = refresh.data.access_token
                 /\ refresh.saving.expiresAt =
                      refresh.now + refresh.data.expires_in * 1000
                 /\ refresh.saving.refreshToken =
                      IF refresh.data.refresh_token = "" THEN refresh.previous
                      ELSE refresh.data.refresh_token
    /\ request.pc = "failed" => request.sends = <<>>

\* a request made exactly 60 s before the stored expiry has sent its fetch
\* after a refresh that named no new refresh token
C20_Witness ==
  \E r \in Requests :
    LET request == locals.requests[r] IN
    /\ RefreshDue(request)
    /\ request.seen.now = request.seen.expiresAt - 60000
    /\ request.pc = "sent"
    /\ Len(request.sends) = 1
    /\ request.refresh.data.refresh_token = ""
    /\ request.sends[1].bearer = Issued("access", r, 0)
    /\ request.sends[1].keychain.refreshToken = "refresh"

\* C21: with no Spotify tokens in the keychain and none in the environment,
\* no call of apiRequest on the client sends a fetch, the first as little as
\* every later one.
C21_AsStated ==
  (locals.env.accessToken = "" /\ locals.env.refreshToken = "")
    => \A r \in Requests : locals.requests[r].sends = <<>>

\* C28: at most one refresh request of the client is awaiting its answer.
C28_AsStated ==
  \A r, other \in Requests :
    (At(r, "refreshing") /\ At(other, "refreshing")) => r = other

\* every await of the client ends: the keychain read, the refresh, the save
\* and the fetch are answered or fail
SpecTokenAnswered ==
  /\ SpecToken
  /\ WF_vars(KeychainRead)
  /\ WF_vars(RefreshSucceeds \/ RefreshFails)
  /\ WF_vars(TokensSaved \/ SaveFails)
  /\ WF_vars(Responds)

\* a call has sent at most two fetches
AtMostTwoFetches ==
  \A r \in Requests : Len(locals.requests[r].sends) <= 2

\* a call sends a refresh request before its first fetch, or after its first
\* fetch was answered, and at no other point; a fetch is sent one at a time
OneRefreshPerFetch ==
  \A r \in Requests :
    LET request == locals.requests[r] IN
    /\ (request'.pc = "refreshing" /\ request.pc # "refreshing") =>
         \/ request.pc \in {"idle", "loading"} /\ request'.sends = <<>>
         \/ request.pc = "sent" /\ Len(request.sends) = 1
              /\ request'.sends = request.sends
    /\ (request.pc = "sent" /\ Len(request.sends) = 2) =>
         request'.pc \in {"sent", "done", "failed"}
    /\ Len(request'.sends) > Len(request.sends) =>
         /\ Len(request'.sends) = Len(request.sends) + 1
         /\ request'.pc = "sent"

\* C29: a call of apiRequest sends at most two fetches, a refresh request
\* only before its first fetch and after a 401 to its first fetch, answers a
\* second fetch that is not ok with an error, and ends once it was made.
C29_BoundedAndEnds ==
  /\ []AtMostTwoFetches
  /\ [][OneRefreshPerFetch]_vars
  /\ \A r \in DOMAIN Calls :
       (locals.requests[r].pc # "idle") ~>
         (locals.requests[r].pc \in {"done", "failed"})

\* a call that refreshed before its first fetch has sent its second fetch
\* after a 401 and a second refresh
C29_Witness ==
  \E r \in Requests :
    LET request == locals.requests[r] IN
    /\ request.pc = "sent"
    /\ Len(request.sends) = 2
    /\ request.refresh # Null
    /\ request.sends[2].bearer = Issued("access", r, 1)

(***************************************************************************)
(* auth/token-storage: the consolidated keychain entry, the module's       *)
(* loadPromise and the AllTokens objects it resolves to.  Promises and     *)
(* objects are numbered in the order they are made; a step is what runs    *)
(* between two completions of keytar calls.  clearCredentialsCache() is    *)
(* not called and the stored JSON parses.                                  *)
(***************************************************************************)

MaxStorageCalls == 3

DiscogsTokens(accessToken, accessSecret, username) ==
  [accessToken |-> accessToken, accessSecret |-> accessSecret,
   username |-> username]

\* an AllTokens object, or the JSON of one; Null is a missing entry
AllTokens(spotify, discogs) == [spotify |-> spotify, discogs |-> discogs]

StoredSpotify == SpotifyTokens("access", "refresh", 0)

StoredDiscogs == DiscogsTokens("token", "secret", "user")

\* the consolidated entry before the first call
StoredEntries ==
  {Null, AllTokens(StoredSpotify, Null), AllTokens(Null, StoredDiscogs),
   AllTokens(StoredSpotify, StoredDiscogs)}

\* what keytar.findCredentials(...) finds of the legacy entries
LegacyEntries == {AllTokens(Null, Null), AllTokens(StoredSpotify, StoredDiscogs)}

StorageCalls ==
  {"loadSpotifyTokens", "loadDiscogsTokens", "saveSpotifyTokens",
   "saveDiscogsTokens", "clearSpotifyTokens", "clearDiscogsTokens"}

\* the tokens call number c saves
TokensOf(kind, c) ==
  IF kind = "saveSpotifyTokens"
  THEN SpotifyTokens("access-" \o ToString(c), "refresh-" \o ToString(c), 3600 * 1000)
  ELSE IF kind = "saveDiscogsTokens"
  THEN DiscogsTokens("token-" \o ToString(c), "secret-" \o ToString(c), "user")
  ELSE Null

\* loadAllTokens(), its first line: the promise every caller shares, 0 if
\* there is none yet
loadAllTokensUncached(loadPromise) == 0

loadAllTokens(loadPromise) == loadPromise

\* migrateFromLegacyEntries(): the object it returns
migrateFromLegacyEntries(legacy) == legacy

\* a call after its await loadAllTokens(), on the object it resolved to:
\* the call and the object afterwards
AfterLoadAllTokens(call, allTokens, object) ==
  LET kind == call.kind
      changed ==
        IF kind = "saveSpotifyTokens" THEN [allTokens EXCEPT !.spotify = call.tokens]
        ELSE IF kind = "saveDiscogsTokens" THEN [allTokens EXCEPT !.discogs = call.tokens]
        ELSE IF kind = "clearSpotifyTokens" THEN [allTokens EXCEPT !.spotify = Null]
        ELSE IF kind = "clearDiscogsTokens" THEN [allTokens EXCEPT !.discogs = Null]
        ELSE allTokens
  IN  [call |->
         IF kind = "loadSpotifyTokens"
         THEN [call EXCEPT !.pc = "done", !.object = object,
                           !.result = allTokens.spotify]
         ELSE IF kind = "loadDiscogsTokens"
         THEN [call EXCEPT !.pc = "done", !.object = object,
                           !.result = allTokens.discogs]
         ELSE [call EXCEPT !.pc = "writing", !.object = object,
                           !.json = changed],
       allTokens |-> changed]

RECURSIVE ResumeCalls(_, _, _, _, _)
\* the calls waiting for a promise go on in the order they were made
ResumeCalls(calls, heap, promise, object, c) ==
  IF c > Len(calls) THEN [calls |-> calls, heap |-> heap]
  ELSE IF calls[c].pc = "loading" /\ calls[c].promise = promise
  THEN LET after == AfterLoadAllTokens(calls[c], heap[object], object)
       IN  ResumeCalls([calls EXCEPT ![c] = after.call],
                       [heap EXCEPT ![object] = after.allTokens],
                       promise, object, c + 1)
  ELSE ResumeCalls(calls, heap, promise, object, c + 1)

StorageCall(kind, c) ==
  [kind |-> kind, tokens |-> TokensOf(kind, c), pc |-> "idle", promise |-> 0,
   object |-> 0, json |-> Null, result |-> Null]

InitStorage ==
  /\ collection = <<>>
  /\ topTracks = <<>>
  /\ recentTracks = <<>>
  /\ topArtists = <<>>
  /\ savedAlbums = <<>>
  /\ args = Null
  /\ result = Null
  /\ client = Null
  /\ keychain \in StoredEntries
  /\ \E legacy \in LegacyEntries :
       /\ keychain # Null => legacy = AllTokens(Null, Null)
       /\ locals = [legacy |-> legacy, loadPromise |-> 0, promises |-> <<>>,
                    heap |-> <<>>, reads |-> 0, calls |-> <<>>]
  /\ op = "none"

\* one of the exported functions is called: up to its first await that
\* waits for keytar
CallStorage ==
  /\ op \in {"none", "storage"}
  /\ Len(locals.calls) < MaxStorageCalls
  /\ \E kind \in StorageCalls :
       LET c == Len(locals.calls) + 1
           call == StorageCall(kind, c)
           shared == loadAllTokens(locals.loadPromise)
       IN  IF shared = 0
           THEN locals' = [locals EXCEPT
                  !.promises = Append(@, [state |-> "pending", object |-> 0]),
                  !.loadPromise = Len(locals.promises) + 1,
                  !.reads = @ + 1,
                  !.calls = Append(@, [call EXCEPT !.pc = "loading",
                                         !.promise = Len(locals.promises) + 1])]
           ELSE IF locals.promises[shared].state = "pending"
           THEN locals' = [locals EXCEPT
                  !.calls = Append(@, [call EXCEPT !.pc = "loading",
                                                   !.promise = shared])]
           ELSE IF locals.promises[shared].state = "rejected"
           THEN locals' = [locals EXCEPT
                  !.calls = Append(@, [call EXCEPT !.pc = "failed",
                                                   !.promise = shared])]
           ELSE \E object \in {locals.promises[shared].object} :
                \E after \in {AfterLoadAllTokens([call EXCEPT !.promise = shared],
                                                 locals.heap[object], object)} :
                  locals' = [locals EXCEPT
                    !.calls = Append(@, after.call),
                    !.heap[object] = after.allTokens]
  /\ op' = "storage"
  /\ UNCHANGED <<collection, topTracks, recentTracks, topArtists, savedAlbums,
                 client, keychain, args, result>>

\* keytar.getPassword(...) answers: the entry is parsed, or the legacy
\* entries are migrated and written; the promise resolves and its callers
\* go on
KeychainAnswers ==
  /\ \E promise \in DOMAIN locals.promises :
       /\ locals.promises[promise].state = "pending"
       /\ \E allTokens \in {IF keychain # Null THEN keychain
                            ELSE migrateFromLegacyEntries(locals.legacy)} :
          \E object \in {Len(locals.heap) + 1} :
          \E resumed \in {ResumeCalls(locals.calls, Append(locals.heap, allTokens),
                                      promise, object, 1)} :
            /\ keychain' = IF keychain = Null /\ allTokens # AllTokens(Null, Null)
                           THEN allTokens ELSE keychain
            /\ locals' = [locals EXCEPT
                 !.promises[promise] = [state |-> "resolved", object |-> object],
                 !.heap = resumed.heap,
                 !.calls = resumed.calls]
  /\ UNCHANGED <<collection, topTracks, recentTracks, topArtists, savedAlbums,
                 client, args, result, op>>

\* keytar.getPassword(...) rejects: so does the promise, and every caller
KeychainRejects ==
  /\ \E promise \in DOMAIN locals.promises :
       /\ locals.promises[promise].state = "pending"
       /\ locals' = [locals EXCEPT
            !.promises[promise].state = "rejected",
            !.calls = [c \in DOMAIN @ |->
                         IF @[c].pc = "loading" /\ @[c].promise = promise
                         THEN [@[c] EXCEPT !.pc = "failed"] ELSE @[c]]]
  /\ UNCHANGED <<upstream, args, result, op>>

\* saveAllTokens(tokens): keytar.setPassword(...) has written the JSON it was
\* given and loadPromise becomes Promise.resolve(tokens)
WriteEnds ==
  /\ \E c \in DOMAIN locals.calls :
       /\ locals.calls[c].pc = "writing"
       /\ keychain' = locals.calls[c].json
       /\ locals' = [locals EXCEPT
            !.promises = Append(@, [state |-> "resolved",
                                    object |-> locals.calls[c].object]),
            !.loadPromise = Len(locals.promises) + 1,
            !.calls[c].pc = "done"]
  /\ UNCHANGED <<collection, topTracks, recentTracks, topArtists, savedAlbums,
                 client, args, result, op>>

\* saveAllTokens(tokens): keytar.setPassword(...) rejects
WriteFails ==
  /\ \E c \in DOMAIN locals.calls :
       /\ locals.calls[c].pc = "writing"
       /\ locals' = [locals EXCEPT !.calls[c].pc = "failed"]
  /\ UNCHANGED <<upstream, args, result, op>>

NextStorage ==
  \/ CallStorage
  \/ KeychainAnswers
  \/ KeychainRejects
  \/ WriteEnds
  \/ WriteFails

SpecStorage == InitStorage /\ [][NextStorage]_vars

StorageSettled ==
  \A c \in DOMAIN locals.calls : locals.calls[c].pc \in {"done", "failed"}

\* the object a loadSpotifyTokens() or loadDiscogsTokens() made now reads
CachedTokens == locals.heap[locals.promises[locals.loadPromise].object]

\* the consolidated entry as an object; a missing entry holds no tokens
StoredTokensNow == IF keychain = Null THEN AllTokens(Null, Null) ELSE keychain

\* C22: once a saveSpotifyTokens and a saveDiscogsTokens have both ended
\* without error and nothing else saved or cleared, the keychain entry and
\* the object later loads read hold the tokens of both.
C22_AsStated ==
  \A c, d \in DOMAIN locals.calls :
    ( /\ StorageSettled
      /\ locals.calls[c].kind = "saveSpotifyTokens" /\ locals.calls[c].pc = "done"
      /\ locals.calls[d].kind = "saveDiscogsTokens" /\ locals.calls[d].pc = "done"
      /\ \A e \in DOMAIN locals.calls :
           e \in {c, d} \/ locals.calls[e].kind \in {"loadSpotifyTokens",
                                                    "loadDiscogsTokens"} )
    => /\ keychain = AllTokens(locals.calls[c].tokens, locals.calls[d].tokens)
       /\ CachedTokens = AllTokens(locals.calls[c].tokens, locals.calls[d].tokens)

\* C23: keytar.getPassword is called at most once, and every call that got
\* past its await loadAllTokens() got the same object.
C23_ReadOnce ==
  /\ locals.reads <= 1
  /\ Len(locals.heap) <= 1
  /\ \A c, d \in DOMAIN locals.calls :
       (locals.calls[c].object # 0 /\ locals.calls[d].object # 0)
         => locals.calls[c].object = locals.calls[d].object

\* two calls waited for the same read, one of them saved, and a third call
\* made after the save got the object of the first two
C23_Witness ==
  /\ Len(locals.calls) = 3
  /\ StorageSettled
  /\ locals.reads = 1
  /\ locals.calls[1].promise = 1 /\ locals.calls[2].promise = 1
  /\ locals.calls[3].promise > 1
  /\ \A c \in 1..3 : locals.calls[c].pc = "done" /\ locals.calls[c].object = 1
  /\ locals.calls[2].kind = "saveDiscogsTokens"
  /\ locals.calls[3].kind = "loadDiscogsTokens"
  /\ locals.calls[3].result = locals.calls[2].tokens

\* C30: when no write is in flight, the object that loads read holds what
\* the keychain entry holds, also after a write that failed.
C30_AsStated ==
  (StorageSettled /\ locals.loadPromise # 0
     /\ locals.promises[locals.loadPromise].state = "resolved")
    => CachedTokens = StoredTokensNow

----------------------------------------------------------------------------
(* SpecVenn: the analysis of a collection against listened albums whose     *)
(* names are close to each other's                                          *)

MaxOwned == 2
MaxListened == 2

\* releases that several spellings of the listened albums match
CloseReleases ==
  { Release("1", Name.Radiohead, Name.OKComputer),
    Release("2", Name.Radiohead, Name.KidB),
    Release("9", Name.Portisheat, Name.Third) }

CloseTracks ==
  { Track(Name.Radiohead, Name.OKComputer),
    Track(Name.Radiohed, Name.OKComputer),
    Track(Name.Radiohead, Name.KidA) }

InitVenn ==
  /\ collection \in SeqsUpTo(CloseReleases, MaxOwned)
  /\ topTracks \in SeqsUpTo(CloseTracks, MaxListened)
  /\ recentTracks = <<>>
  /\ topArtists = <<>>
  /\ savedAlbums = <<>>
  /\ args = Null
  /\ locals = Null
  /\ result = Null
  /\ client = Null
  /\ keychain = Null
  /\ op = "none"

SpecVenn == InitVenn /\ [][NextAnalysis]_vars

\* C24: in every analysis onlyOwned and onlyListened are not negative, both
\* is at most the number of releases, and overlapPercentage is between 0
\* and 100.
C24_AsStated ==
  Analyzed =>
    /\ result.vennData.onlyOwned >= 0
    /\ result.vennData.onlyListened >= 0
    /\ result.vennData.both <= Len(collection)
    /\ result.summary.overlapPercentage >= 0
    /\ result.summary.overlapPercentage <= 100

----------------------------------------------------------------------------
(* More claims about matchAlbumToCollection, checked under Spec             *)

\* release i has the album's artist after normalisation
SameArtist(i) ==
  normalizeArtist(collection[i].artist) = normalizeArtist(args.album.artist)

\* C25: when some release of the collection has the album's normalized
\* artist, and that is not empty, the result is not no_match.
C25_AsStated ==
  ( /\ Matched
    /\ normalizeArtist(args.album.artist) # <<>>
    /\ \E i \in DOMAIN collection : SameArtist(i) )
  => result.matchType # "no_match"

\* release i and the album have names that all normalise to the empty string
AllEmpty(i) ==
  /\ normalizeArtist(args.album.artist) = <<>>
  /\ normalizeAlbum(args.album.name) = <<>>
  /\ normalizeArtist(collection[i].artist) = <<>>
  /\ normalizeAlbum(collection[i].album) = <<>>

\* C27: an album and a release whose artists and titles all normalise to the
\* empty string are matched exactly, with score 1.0, and the album is owned.
C27_EmptyNamesAreEqual ==
  \A i \in DOMAIN collection :
    (Matched /\ AllEmpty(i)) =>
      /\ result.matchType = "exact"
      /\ result.matchScore = NumOne
      /\ isOwned(result)
      /\ result.discogsRelease # Null
      /\ normalizeArtist(result.discogsRelease.artist) = <<>>
      /\ normalizeAlbum(result.discogsRelease.album) = <<>>

\* '!!!' / '(Untitled)' against a collection whose second release is
\* '???' / '[Untitled]'
C27_Witness ==
  /\ Matched
  /\ Len(collection) = 2
  /\ AllEmpty(2)
  /\ args.album.artist # collection[2].artist
  /\ args.album.name # collection[2].album
  /\ result.discogsRelease = collection[2]

----------------------------------------------------------------------------
(* More claims about the whole analysis, checked under SpecInsights         *)

\* C26: the releases listed in gaps.unplayedInCollection are the releases
\* counted in ownedNotListened: as many, and a release is listed iff its
\* normalized key has no recent play and is the key of no top track.
C26_AsStated ==
  (Analyzed /\ "gaps" \in DOMAIN result) =>
    LET unplayed == result.gaps.unplayedInCollection
    IN  /\ Len(unplayed) = result.summary.ownedNotListened
        /\ \A i \in DOMAIN collection :
             i \notin ListenedReleases <=>
               \E j \in DOMAIN unplayed :
                 /\ unplayed[j].artist = collection[i].artist
                 /\ unplayed[j].album = collection[i].album

====
